---------------------------- MODULE Spec2Model ----------------------------
(***************************************************************************)
(* A model of toolsgen: the subset samplers (sampling.py), and the         *)
(* per-sample generation loop of generate_dataset (generator.py).          *)
(*                                                                         *)
(* Optional values (Python's None) are sequences of length at most one:    *)
(* None is <<>>, a present value x is <<x>>.                               *)
(***************************************************************************)
EXTENDS Integers, Sequences, FiniteSets, TLC

\* ------------------------------------------------------------------ bounds

\* Longest catalog the sampler calls are tried on.
MaxTools == 3
\* Largest `total` handed to batched_subsets.
MaxTotal == 2
\* Largest explicit seed.
MaxSeed == 1
\* OS entropy an unseeded random.Random() may start from: 0..MaxEntropy.
MaxEntropy == 5

\* Largest num_samples of a generation run.
MaxSamples == 2
\* Most tool-call candidates in one tool-calling response.
MaxCalls == 2
MaxRetries == 2

None == <<>>
Some(x) == <<x>>

Max(a, b) == IF a >= b THEN a ELSE b
Min(a, b) == IF a <= b THEN a ELSE b

\* ------------------------------------------------------------------- tools

\* A ToolSpec: function.name, function.description (None, or the lower-cased
\* word tokens re.findall(r"\b\w+\b", ...) yields for it), and the keys of
\* function.parameters["properties"] (None when that is missing or no dict).
ToolA == [name |-> "get_weather",
          description |-> Some(<<"get", "the", "weather", "for", "a", "city">>),
          properties |-> Some({"city", "units"})]
ToolB == [name |-> "get_forecast",
          description |-> Some(<<"get", "weather", "forecast", "for", "city">>),
          properties |-> Some({"city", "days"})]
ToolC == [name |-> "ping",
          description |-> None,
          properties |-> None]

ToolPool == {ToolA, ToolB, ToolC}
\* A fourth tool, for the catalogs of generate_dataset that exceed three tools.
ToolD == [name |-> "noop", description |-> None, properties |-> Some({})]

RECURSIVE SeqsUpTo(_, _)
SeqsUpTo(S, n) ==
    IF n = 0 THEN {<<>>}
    ELSE LET shorter == SeqsUpTo(S, n - 1)
         IN  shorter \cup {Append(s, x) : s \in {t \in shorter : Len(t) = n - 1}, x \in S}

Catalogs == SeqsUpTo(ToolPool, MaxTools)

\* _tool_param_count: len(properties) when properties is a dict, else 0.
ToolParamCount(tool) ==
    IF tool.properties = None THEN 0 ELSE Cardinality(tool.properties[1])

\* ------------------------------------------------- random.Random (seeded)

\* random.Random(seed): the generator's state is a function of the seed; with
\* seed None it starts from OS entropy e.  The generator is a linear
\* congruential one standing in for the Mersenne Twister.
RandomUnseeded(seed, e) == e
Random(seed, e) == IF seed = None THEN e ELSE seed[1] % 64

RngNext(s) == (5 * s + 1) % 64

\* rng._randbelow(n): the value drawn from state s (the new state is RngNext(s)).
RandBelow(s, n) == RngNext(s) % n

Swap(x, i, j) == [x EXCEPT ![i] = x[j], ![j] = x[i]]

\* rng.shuffle(x): for i in reversed(range(1, len(x))): j = randbelow(i + 1);
\* x[i], x[j] = x[j], x[i]   (positions here count from 1).
RECURSIVE ShuffleFrom(_, _, _)
ShuffleFrom(x, i, s) ==
    IF i < 2 THEN x
    ELSE ShuffleFrom(Swap(x, i, RandBelow(s, i) + 1), i - 1, RngNext(s))

ShuffleWithReplacement(x, s) == [i \in 1..Len(x) |-> x[RandBelow(s + i * i, Len(x)) + 1]]
Shuffle(x, s) == ShuffleFrom(x, Len(x), s)

\* rng.randint(a, b): a + randbelow(b - a + 1); ValueError on an empty range.
RandInt(s, a, b) ==
    IF a > b THEN [exc |-> "ValueError", val |-> 0]
    ELSE [exc |-> "none", val |-> a + RandBelow(s, b - a + 1)]

\* k = max(1, min(k, len(tools)))
ClampNoFloor(k, n) == Min(k, n)
ClampK(k, n) == Max(1, Min(k, n))

\* ----------------------------------------------------- sample_random_subset

sample_random_subset(tools, k, seed, e) ==
    IF tools = <<>> THEN <<>>
    ELSE LET kk == ClampK(k, Len(tools))
             indices == Shuffle([i \in 1..Len(tools) |-> i], Random(seed, e))
         IN  [j \in 1..kk |-> tools[indices[j]]]

\* ------------------------------------------------ sample_param_aware_subset

\* list.sort(key=lambda x: x[1], reverse=True): stable, descending by x[2].
RECURSIVE InsertDesc(_, _)
InsertDesc(sorted, x) ==
    IF sorted = <<>> THEN <<x>>
    ELSE IF sorted[1][2] >= x[2] THEN <<sorted[1]>> \o InsertDesc(Tail(sorted), x)
    ELSE <<x>> \o sorted

RECURSIVE SortDescFrom(_, _, _)
SortDescFrom(x, i, acc) ==
    IF i > Len(x) THEN acc ELSE SortDescFrom(x, i + 1, InsertDesc(acc, x[i]))

SortAsIs(x) == x
SortDesc(x) == SortDescFrom(x, 1, <<>>)

sample_param_aware_subset(tools, k, seed, e) ==
    IF tools = <<>> THEN <<>>
    ELSE LET kk == ClampK(k, Len(tools))
             scored == [i \in 1..Len(tools) |-> <<tools[i], ToolParamCount(tools[i])>>]
             sorted == SortDesc(Shuffle(scored, Random(seed, e)))
         IN  [j \in 1..kk |-> sorted[j][1]]

\* -------------------------------------------------- sample_semantic_subset

StopWords == {"the", "a", "an", "and", "or", "but", "in", "on", "at", "to", "for"}

\* _extract_keywords on the word tokens of a text.
ExtractKeywords(words) ==
    {words[i] : i \in {j \in 1..Len(words) : Len(words[j]) > 2 /\ words[j] \notin StopWords}}

\* The keywords of function.name and of (function.description or "").  A name
\* is one \w+ token; the empty text has no tokens.
ToolKeywords(tool) ==
    ExtractKeywords(IF tool.name = "" THEN <<>> ELSE <<tool.name>>)
        \cup ExtractKeywords(IF tool.description = None THEN <<>> ELSE tool.description[1])

\* Fractions <<numerator, denominator>>, denominator > 0.
FracAdd(a, b) == <<a[1] * b[2] + b[1] * a[2], a[2] * b[2]>>
FracLe(a, b) == a[1] * b[2] <= b[1] * a[2]
FracLt(a, b) == a[1] * b[2] < b[1] * a[2]

\* _tool_semantic_similarity: the Jaccard index of the two keyword sets, 0 when
\* either is empty.
ToolSemanticSimilarity(tool1, tool2) ==
    LET keywords1 == ToolKeywords(tool1)
        keywords2 == ToolKeywords(tool2)
    IN  IF keywords1 = {} \/ keywords2 = {} THEN <<0, 1>>
        ELSE <<Cardinality(keywords1 \cap keywords2), Cardinality(keywords1 \cup keywords2)>>

RECURSIVE SumSimilarity(_, _, _)
SumSimilarity(tool, selected, i) ==
    IF i > Len(selected) THEN <<0, 1>>
    ELSE FracAdd(ToolSemanticSimilarity(tool, selected[i]), SumSimilarity(tool, selected, i + 1))

\* avg_sim = sum(...) / len(selected)
AvgSimilarity(tool, selected) ==
    LET total == SumSimilarity(tool, selected, 1)
    IN  <<total[1], total[2] * Len(selected)>>

\* score = avg_sim if 0.2 <= avg_sim <= 0.6 else avg_sim * 0.5
SemanticScore(avg_sim) ==
    IF FracLe(<<1, 5>>, avg_sim) /\ FracLe(avg_sim, <<3, 5>>) THEN avg_sim
    ELSE <<avg_sim[1], avg_sim[2] * 2>>

\* The inner for loop: best is [tool |-> None or <<tool>>, score |-> fraction].
RECURSIVE BestFrom(_, _, _, _)
BestFrom(remaining, selected, i, best) ==
    IF i > Len(remaining) THEN best
    ELSE LET score == SemanticScore(AvgSimilarity(remaining[i], selected))
         IN  IF FracLt(best.score, score)
             THEN BestFrom(remaining, selected, i + 1, [tool |-> Some(remaining[i]), score |-> score])
             ELSE BestFrom(remaining, selected, i + 1, best)

\* best_score = -1.0, the score no candidate has beaten yet.
SentinelZero == <<0, 1>>
Sentinel == <<-1, 1>>

BestTool(remaining, selected) ==
    BestFrom(remaining, selected, 1, [tool |-> None, score |-> Sentinel]).tool

\* list.remove(x): drops the first element equal to x.
RemoveNothing(seq, x) == seq
RECURSIVE RemoveFirst(_, _)
RemoveFirst(seq, x) ==
    IF seq = <<>> THEN <<>>
    ELSE IF Head(seq) = x THEN Tail(seq)
    ELSE <<Head(seq)>> \o RemoveFirst(Tail(seq), x)

\* The while loop of sample_semantic_subset.
RECURSIVE SemanticLoop(_, _, _)
SemanticLoop(selected, remaining, k) ==
    IF ~(Len(selected) < k /\ remaining # <<>>) THEN selected
    ELSE LET best_tool == BestTool(remaining, selected)
         IN  IF best_tool # None
             THEN SemanticLoop(Append(selected, best_tool[1]),
                               RemoveFirst(remaining, best_tool[1]), k)
             ELSE SemanticLoop(Append(selected, Head(remaining)), Tail(remaining), k)

sample_semantic_subset(tools, k, seed, e) ==
    IF tools = <<>> THEN <<>>
    ELSE LET kk == ClampK(k, Len(tools))
             remaining == Shuffle(tools, Random(seed, e))
         IN  IF Len(tools) <= kk THEN tools
             ELSE SemanticLoop(<<Head(remaining)>>, Tail(remaining), kk)

\* The list `remaining` when the while loop has ended.
RECURSIVE SemanticRest(_, _, _)
SemanticRest(selected, remaining, k) ==
    IF ~(Len(selected) < k /\ remaining # <<>>) THEN remaining
    ELSE LET best_tool == BestTool(remaining, selected)
         IN  IF best_tool # None
             THEN SemanticRest(Append(selected, best_tool[1]),
                               RemoveFirst(remaining, best_tool[1]), k)
             ELSE SemanticRest(Append(selected, Head(remaining)), Tail(remaining), k)

\* ------------------------------------------- the caller's list of tools

\* The list object a name of a sampler is bound to: "catalog" is the list the
\* caller passed in, "local" a list the function has built.  remaining =
\* list(tools) builds a new list with the elements of tools.
ListSame(x) == x
ListCopy(x) == "local"

\* The caller's list after a call of the sampler of the given strategy.  The
\* lists changed in place are indices = list(range(len(tools))) in
\* sample_random_subset and the comprehension scored in
\* sample_param_aware_subset, both built from new elements, and remaining in
\* sample_semantic_subset, which is shuffled, popped from and removed from.
CatalogAfter(strategy, tools, k, seed, e) ==
    IF strategy # "semantic" \/ tools = <<>> \/ Len(tools) <= ClampK(k, Len(tools))
    THEN tools
    ELSE LET shuffled == Shuffle(tools, Random(seed, e))
         IN  IF ListCopy("catalog") = "catalog"
             THEN SemanticRest(<<Head(shuffled)>>, Tail(shuffled), ClampK(k, Len(tools)))
             ELSE tools

\* ---------------------------------------------------------- batched_subsets

\* A call's outcome: the value returned, or the exception raised.
Returned(v) == [exc |-> "none", val |-> v]
Raised(x) == [exc |-> x, val |-> <<>>]

\* chooser(tools, k=k, seed=subset_seed); any other strategy tag samples at random.
Chooser(strategy, tools, k, seed, e) ==
    CASE strategy = "param_aware" -> sample_param_aware_subset(tools, k, seed, e)
      [] strategy = "semantic" -> sample_semantic_subset(tools, k, seed, e)
      [] OTHER -> sample_random_subset(tools, k, seed, e)

\* subset_seed = None if seed is None else (seed + i)
SubsetSeedGlobal(seed, i) == seed
SubsetSeed(seed, i) == IF seed = None THEN None ELSE Some(seed[1] + i)

\* The for loop of batched_subsets, from index i on.  c holds the call's
\* values after clamping; es[1] is the entropy of rng, es[i + 2] that of the
\* generator subset i creates (both used only when seed is None).
RECURSIVE BatchLoop(_, _, _, _, _)
BatchLoop(c, i, rng, es, subsets) ==
    IF i >= c.total THEN Returned(subsets)
    ELSE LET k == IF c.fixed_k # None THEN Returned(c.fixed_k[1])
                  ELSE RandInt(rng, c.k_min, c.k_max)
             rng1 == IF c.fixed_k # None THEN rng ELSE RngNext(rng)
         IN  IF k.exc # "none" THEN Raised(k.exc)
             ELSE BatchLoop(c, i + 1, rng1, es,
                     Append(subsets,
                            Chooser(c.strategy, c.tools, k.val, SubsetSeed(c.seed, i), es[i + 2])))

\* The caller's list through the for loop of batched_subsets: each chooser
\* call is handed the same list object.
RECURSIVE BatchCatalog(_, _, _, _, _)
BatchCatalog(c, i, rng, es, catalog) ==
    IF i >= c.total THEN catalog
    ELSE LET k == IF c.fixed_k # None THEN Returned(c.fixed_k[1])
                  ELSE RandInt(rng, c.k_min, c.k_max)
             rng1 == IF c.fixed_k # None THEN rng ELSE RngNext(rng)
         IN  IF k.exc # "none" THEN catalog
             ELSE BatchCatalog(c, i + 1, rng1, es,
                     CatalogAfter(c.strategy, catalog, k.val, SubsetSeed(c.seed, i), es[i + 2]))

FixedKNever(batch_size, max_allowed) == None
FixedK(batch_size, max_allowed) ==
    IF 1 <= batch_size /\ batch_size <= max_allowed
    THEN Some(Max(1, Min(batch_size, max_allowed)))
    ELSE None

\* if not tools: return []   (the guard of batched_subsets)
EmptyCatalogIgnored(tools) == FALSE
EmptyCatalog(tools) == tools = <<>>

\* k_max = k_max or len(tools); k_max = max(1, min(k_max, len(tools))).  None
\* and 0 are both falsy.
KMax(k_max, n) ==
    LET k_max0 == IF k_max = None \/ k_max = Some(0) THEN n ELSE k_max[1]
    IN  Max(1, Min(k_max0, n))

\* k_min = max(1, min(k_min, k_max)), with the clamped k_max.
KMinUnclamped(k_min, k_max) == k_min
KMin(k_min, k_max) == Max(1, Min(k_min, k_max))

batched_subsets(tools, batch_size, total, strategy, seed, k_min, k_max, es) ==
    IF EmptyCatalog(tools) THEN Returned(<<>>)
    ELSE LET max_allowed == Len(tools)
             k_max1 == KMax(k_max, Len(tools))
             k_min1 == KMin(k_min, k_max1)
         IN  BatchLoop([tools |-> tools, total |-> total, strategy |-> strategy,
                        seed |-> seed, fixed_k |-> FixedK(batch_size, max_allowed),
                        k_min |-> k_min1, k_max |-> k_max1],
                       0, Random(seed, es[1]), es, <<>>)

\* The caller's list after a call of batched_subsets.
CatalogAfterBatched(tools, batch_size, total, strategy, seed, k_min, k_max, es) ==
    IF EmptyCatalog(tools) THEN tools
    ELSE LET k_max1 == KMax(k_max, Len(tools))
         IN  BatchCatalog([total |-> total, strategy |-> strategy, seed |-> seed,
                           fixed_k |-> FixedK(batch_size, Len(tools)),
                           k_min |-> KMin(k_min, k_max1), k_max |-> k_max1],
                          0, Random(seed, es[1]), es, tools)

\* ------------------------------------------------------- the model client

\* The typed errors client.create and client.create_structured end with.
ClientErrors == {"RateLimitExceeded", "APIRequestError"}

\* Texts are sequences of characters.
TextEmpty == <<>>
TextBlank == <<" ", " ">>
TextPadded == <<" ", "h", "i", " ">>
Contents == {None, Some(TextEmpty), Some(TextBlank), Some(TextPadded)}

\* str.strip()
RECURSIVE LStrip(_)
LStrip(t) == IF t # <<>> /\ Head(t) = " " THEN LStrip(Tail(t)) ELSE t
RECURSIVE RStrip(_)
RStrip(t) == IF t # <<>> /\ t[Len(t)] = " " THEN RStrip(SubSeq(t, 1, Len(t) - 1)) ELSE t
Strip(t) == RStrip(LStrip(t))

\* message["tool_calls"]: the key missing, null, or a list of candidates.
ToolCallsMissing == [key |-> "missing", items |-> <<>>]
ToolCallsNull == [key |-> "null", items |-> <<>>]
ToolCallsList(items) == [key |-> "list", items |-> items]

\* A tool-call candidate of a response: id (None when missing or no string),
\* type (None when missing), function (None when missing or no dict).
CallFunction == [name |-> "get_weather", arguments |-> "{}"]
CandidateValid1 == [id |-> Some("call_1"), type |-> None, function |-> Some(CallFunction)]
CandidateValid2 == [id |-> Some("call_2"), type |-> Some("function"), function |-> Some(CallFunction)]
CandidateNoId == [id |-> None, type |-> Some("function"), function |-> Some(CallFunction)]
CandidateBadType == [id |-> Some("call_1"), type |-> Some("other"), function |-> Some(CallFunction)]
CandidateNoFunction == [id |-> Some("call_2"), type |-> None, function |-> None]
Candidates ==
    {CandidateValid1, CandidateValid2, CandidateNoId, CandidateBadType, CandidateNoFunction}

\* A chat completion: choices, each with message.content and message.tool_calls.
Completion(content, tool_calls) ==
    [choices |-> <<[message |-> [content |-> content, tool_calls |-> tool_calls]]>>]
NoChoices == [choices |-> <<>>]

\* What client.create may return for the problem-generation request.
ProblemResponses == {NoChoices} \cup {Completion(c, ToolCallsNull) : c \in Contents}

\* What client.create may return for the tool-calling request.
CallerResponses ==
    {NoChoices, Completion(None, ToolCallsMissing), Completion(None, ToolCallsNull)}
        \cup {Completion(None, ToolCallsList(items)) : items \in SeqsUpTo(Candidates, MaxCalls)}

\* The JudgeResponse objects create_structured may return (scores in hundredths).
JudgeResponses ==
    {[tool_relevance |-> 40, argument_quality |-> 30, clarity |-> 20, score |-> 90,
      verdict |-> "accept", rationale |-> "fits"],
     [tool_relevance |-> 20, argument_quality |-> 20, clarity |-> 10, score |-> 50,
      verdict |-> "reject", rationale |-> "vague"]}

\* ------------------------------------------------------------ generator.py

\* _generate_user_request, after client.create returned response: the text, or
\* the ValueError raised.
ContentMissingOnly(content) == content = None
\* `not content`: None and "" are falsy
ContentMissing(content) == content = None \/ content = Some(TextEmpty)

UserRequestOf(response) ==
    IF response.choices = <<>> THEN Raised("ValueError: LLM returned no choices")
    ELSE LET content == response.choices[1].message.content
         IN  IF ContentMissing(content)
             THEN Raised("ValueError: LLM returned empty content")
             ELSE Returned(Strip(content[1]))

\* AssistantToolCall.model_validate(tc_data): id a string, type "function" or
\* left out (the default), function a dict.
ValidToolCall(tc) ==
    /\ tc.id # None
    /\ tc.type \in {None, Some("function")}
    /\ tc.function # None

AssistantToolCall(tc) ==
    [id |-> tc.id[1], type |-> "function", function |-> tc.function[1]]

\* The for loop of _extract_tool_calls: a candidate that fails validation is
\* skipped.
RECURSIVE ValidatedCalls(_)
ValidatedCalls(items) ==
    IF items = <<>> THEN <<>>
    ELSE IF ValidToolCall(Head(items))
         THEN <<AssistantToolCall(Head(items))>> \o ValidatedCalls(Tail(items))
         ELSE ValidatedCalls(Tail(items))

ExtractAllOrNothing(response) ==
    IF response.choices = <<>> THEN Returned(<<>>)
    ELSE LET tool_calls_data == response.choices[1].message.tool_calls
         IN  IF tool_calls_data.key = "null" THEN Raised("TypeError")
             ELSE IF \A n \in 1..Len(tool_calls_data.items) : ValidToolCall(tool_calls_data.items[n])
                  THEN Returned(ValidatedCalls(tool_calls_data.items))
                  ELSE Returned(<<>>)
\* _extract_tool_calls: message.get("tool_calls", []) is [] for a missing key,
\* and iterating a null one raises TypeError.
ExtractToolCalls(response) ==
    IF response.choices = <<>> THEN Returned(<<>>)
    ELSE LET tool_calls_data == response.choices[1].message.tool_calls
         IN  IF tool_calls_data.key = "null" THEN Raised("TypeError")
             ELSE Returned(ValidatedCalls(tool_calls_data.items))

\* A judge mapping that always rejects.
JudgeResultDictRejects(r) ==
    [score |-> r.score, verdict |-> "reject", rationale |-> r.rationale,
     rubric_version |-> "0.1.0", tool_relevance |-> r.tool_relevance,
     argument_quality |-> r.argument_quality, clarity |-> r.clarity]
\* JudgeResult.from_response(response).to_dict()
JudgeResultDict(r) ==
    [score |-> r.score, verdict |-> r.verdict, rationale |-> r.rationale,
     rubric_version |-> "0.1.0", tool_relevance |-> r.tool_relevance,
     argument_quality |-> r.argument_quality, clarity |-> r.clarity]

\* model_config of the run: the model name and the temperature (a fraction).
ModelInfo == [model |-> "gpt-4o-mini", temperature |-> <<7, 10>>]

\* _create_record's judge_dict: the provenance, updated with the judge result
\* when there is one.
CreateJudgeDictDefaultScores(model_info, judge_result) ==
    [k \in {"model", "temperature", "score", "verdict"} |->
        CASE k = "model" -> model_info.model
          [] k = "temperature" -> model_info.temperature
          [] k = "score" -> IF judge_result = None THEN 0 ELSE judge_result[1].score
          [] OTHER -> IF judge_result = None THEN "reject" ELSE judge_result[1].verdict]
CreateJudgeDict(model_info, judge_result) ==
    LET provenance == [model |-> model_info.model, temperature |-> model_info.temperature]
    IN  IF judge_result = None THEN provenance
        ELSE [k \in DOMAIN provenance \cup DOMAIN judge_result[1] |->
                IF k \in DOMAIN judge_result[1] THEN judge_result[1][k] ELSE provenance[k]]

\* f"record_{i:06d}": the prefix and the decimal digits of i, zero-padded to six.
RECURSIVE Digits(_)
Digits(n) == IF n < 10 THEN <<n>> ELSE Append(Digits(n \div 10), n % 10)
RECURSIVE ZeroPad(_, _)
ZeroPad(d, width) == IF Len(d) >= width THEN d ELSE ZeroPad(<<0>> \o d, width)
\* An identifier that does not follow the index.
RecordIdOfFirst(n) == [prefix |-> "record_", digits |-> <<0, 0, 0, 0, 0, 0>>]
RecordId(n) == [prefix |-> "record_", digits |-> ZeroPad(Digits(n), 6)]

\* _create_record
CreateRecord(record_id, subset, request, calls, model_info, judge_result) ==
    [id |-> record_id,
     language |-> "en",
     tools |-> subset,
     messages |-> <<[role |-> "user", content |-> Some(request),
                     tool_call_id |-> None, name |-> None]>>,
     assistant_calls |-> calls,
     problem_metadata |-> [generated |-> TRUE, user_request |-> request],
     judge |-> CreateJudgeDict(model_info, judge_result),
     quality_tags |-> <<>>]

\* ------------------------------------------------- calls of the samplers

VARIABLES
    tools,  \* the catalog the caller holds
    call,   \* the arguments of the caller's latest call
    out,    \* what that call returned
    out2    \* what the same call, made once more, returned

\* One call of sample_semantic_subset, followed through its while loop.
VARIABLES
    greedy         \* the locals of the call: its position, k, selected, remaining and
                   \* the entropy its generator read, with the latest step of the loop

samplerVars == <<tools, call, out, out2, greedy>>

\* The state of one generate_dataset run.
VARIABLES
    pc,            \* where the run is: "start", "problem", "reply", "call", "extract",
                   \* "judge", "finish", "done", or "raised" (an exception left it)
    cfg,           \* gen_config: num_samples, strategy, seed, train_split
    tools_file,    \* the parsed JSON of tools_path
    environ,       \* os.environ: OPENAI_API_KEY (None when unset)
    all_tools,     \* the loaded catalog
    tool_subsets,  \* the subsets batched_subsets returned
    i,             \* the index of the sample in progress (from 0)
    failed,        \* the failure count
    all_records,   \* the records of the successful samples
    user_request,  \* the sample's generated request (None before it)
    response,      \* the response client.create returned, until it is read
    tool_calls,    \* the sample's validated tool calls
    exc,           \* the exception the latest step raised to generate_dataset
    log,           \* the model requests issued so far, with their outcomes
    splits,        \* the split name -> records mapping (None before the split)
    files,         \* the output directory: file name -> content (None: no file)
    manifest       \* the manifest returned (None before the return)

\* The state of one ChatModelClient and of its call in progress.
VARIABLES
    self,          \* the client: max_retries, initial_retry_delay, max_retry_delay
    method,        \* "none", or the method called: "create" or "create_structured"
    attempt,       \* the index of the retry loop
    last_error,    \* last_error of the call (None before a failure)
    transport,     \* the outcomes of the transport attempts made by the call
    sleeps,        \* the delays the call has slept, in seconds
    result         \* what the call returned or raised (NotCalled before)

\* The token bucket of the client and the clock it reads.
VARIABLES
    bucket,        \* rate_limit_tokens_per_minute, tokens_used, window_start
    clock,         \* time.time(), in seconds
    admissions     \* one entry per request that passed _wait_for_rate_limit

limiterVars == <<bucket, clock, admissions>>

\* One call of judge_tool_calls, from the reply of the judge model on.
VARIABLES
    judge_content, \* the JSON object the judge model replied with (None before)
    validated,     \* what JudgeResponse.model_validate_json made of it
    record_judge   \* the judge mapping stored in the record (None: no record)

judgeVars == <<judge_content, validated, record_judge>>

\* The role calls of consecutive samples, made through one client.
VARIABLES
    suspensions    \* the points at which the run has suspended so far, in order

clientVars == <<self, method, attempt, last_error, transport, sleeps, result, limiterVars,
                judgeVars, suspensions>>

genVars == <<pc, cfg, tools_file, environ, all_tools, tool_subsets, i, failed, all_records,
             user_request, response, tool_calls, exc, log, splits, files, manifest>>

vars == <<tools, call, out, out2, greedy, pc, cfg, tools_file, environ, all_tools, tool_subsets, i,
          failed, all_records, user_request, response, tool_calls, exc, log, splits,
          files, manifest, self, method, attempt, last_error, transport, sleeps, result,
          bucket, clock, admissions, judge_content, validated, record_judge, suspensions>>

NotCalled == [exc |-> "pending", val |-> <<>>]

\* No call of sample_semantic_subset is followed.
GreedyIdle == greedy = [pc |-> "idle"]

\* The bucket of a client constructed at time now with the given limit.
NewBucket(limit, now) ==
    [rate_limit_tokens_per_minute |-> limit, tokens_used |-> 0, window_start |-> now]

\* A client without a token budget, constructed at time 0.
LimiterIdle ==
    /\ bucket = NewBucket(None, 0)
    /\ clock = 0
    /\ admissions = <<>>

\* No role call has suspended.
NotSuspended == suspensions = <<>>

\* No call of judge_tool_calls.
JudgeIdle ==
    /\ judge_content = None
    /\ validated = NotCalled
    /\ record_judge = None

\* No client call: a client with the default settings (no token budget), never
\* called.
ClientIdle ==
    /\ LimiterIdle
    /\ JudgeIdle
    /\ NotSuspended
    /\ self = [max_retries |-> 3, initial_retry_delay |-> 1, max_retry_delay |-> 60]
    /\ method = "none"
    /\ attempt = 0
    /\ last_error = None
    /\ transport = <<>>
    /\ sleeps = <<>>
    /\ result = NotCalled

Ks == -1..(MaxTools + 1)
Seeds == {None} \cup {Some(s) : s \in 0..MaxSeed}
Strategies == {"random", "param_aware", "semantic"}

\* The entropies n unseeded generators may start from; a seeded call reads none.
Entropy == 0..MaxEntropy
\* A batched call creates total + 1 generators: each is tried on the two ends.
BatchEntropy == {0, MaxEntropy}

\* The entropies the generators of call c may start from.  A seeded generator
\* reads none, so a seeded first call is tried on one choice of them; the
\* repeated call is tried on all.
AllEntropies(c) ==
    IF c.fn = "batched" THEN [1..(c.total + 1) -> BatchEntropy] ELSE [1..1 -> Entropy]

FirstEntropies(c) ==
    IF c.seed = None THEN AllEntropies(c)
    ELSE {[n \in 1..(IF c.fn = "batched" THEN c.total + 1 ELSE 1) |-> 0]}

Invoke(c, es) ==
    CASE c.fn = "random" -> Returned(sample_random_subset(tools, c.k, c.seed, es[1]))
      [] c.fn = "param_aware" -> Returned(sample_param_aware_subset(tools, c.k, c.seed, es[1]))
      [] c.fn = "semantic" -> Returned(sample_semantic_subset(tools, c.k, c.seed, es[1]))
      [] c.fn = "batched" ->
            batched_subsets(tools, c.batch_size, c.total, c.strategy, c.seed,
                            c.k_min, c.k_max, es)

\* The caller's list after call c.
CatalogAfterCall(c, es) ==
    IF c.fn = "batched"
    THEN CatalogAfterBatched(tools, c.batch_size, c.total, c.strategy, c.seed,
                             c.k_min, c.k_max, es)
    ELSE CatalogAfter(c.fn, tools, c.k, c.seed, es[1])

Do(c) ==
    /\ call' = c
    /\ \E es \in FirstEntropies(c) :
          /\ out' = Invoke(c, es)
          /\ tools' = CatalogAfterCall(c, es)
    /\ out2' = NotCalled
    /\ UNCHANGED <<greedy, genVars, clientVars>>

CallRandom ==
    /\ call.fn = "none"
    /\ \E k \in Ks, seed \in Seeds : Do([fn |-> "random", k |-> k, seed |-> seed])

CallParamAware ==
    /\ call.fn = "none"
    /\ \E k \in Ks, seed \in Seeds : Do([fn |-> "param_aware", k |-> k, seed |-> seed])

CallSemantic ==
    /\ call.fn = "none"
    /\ \E k \in Ks, seed \in Seeds : Do([fn |-> "semantic", k |-> k, seed |-> seed])

CallBatched ==
    /\ call.fn = "none"
    /\ \E batch_size \in 0..(MaxTools + 1), total \in 0..MaxTotal,
       strategy \in Strategies \cup {"other"}, seed \in Seeds,
       k_min \in {0, 2}, k_max \in {None, Some(-1), Some(0), Some(1), Some(2)} :
        Do([fn |-> "batched", batch_size |-> batch_size, total |-> total,
            strategy |-> strategy, seed |-> seed, k_min |-> k_min, k_max |-> k_max])

\* The caller repeats its latest call with the same arguments.
CallAgain ==
    /\ call.fn # "none"
    /\ call.seed # None
    /\ out2 = NotCalled
    /\ \E es \in AllEntropies(call) :
          /\ out2' = Invoke(call, es)
          /\ tools' = CatalogAfterCall(call, es)
    /\ UNCHANGED <<call, out, greedy, genVars, clientVars>>

\* No generation run: the state generate_dataset starts from, never started.
FileNames == {"train.jsonl", "val.jsonl", "manifest.json"}

GenIdle ==
    /\ all_tools = <<>>
    /\ tool_subsets = <<>>
    /\ i = 0
    /\ failed = 0
    /\ all_records = <<>>
    /\ user_request = None
    /\ response = None
    /\ tool_calls = <<>>
    /\ exc = None
    /\ log = <<>>
    /\ splits = None
    /\ files = [f \in FileNames |-> None]
    /\ manifest = None


\* ------------------------------------------------- a generate_dataset run

\* The tools files: no JSON list, or a list of valid tool definitions.
\* An entry of the tools file that is no tool definition: it has no function.
EntryNoFunction == [type |-> "function"]

ToolsFiles ==
    {[json |-> "object", entries |-> <<>>]}
        \cup {[json |-> "list", entries |-> c] :
                c \in {<<>>, <<ToolC>>, <<ToolA, ToolB, ToolC, ToolD>>, <<ToolC, EntryNoFunction>>}}

\* ToolSpec.model_validate(tool) accepts the entry: it has a function with a
\* name.
ValidToolSpec(entry) == "name" \in DOMAIN entry

\* train_split as a fraction
TrainSplits == {<<1, 2>>, <<1, 1>>}

GenConfigs ==
    [num_samples : 0..MaxSamples, strategy : {"semantic", "other"},
     seed : {None, Some(MaxSeed)}, train_split : TrainSplits]

\* The environments: OPENAI_API_KEY unset, empty, or set.
Environs == {[OPENAI_API_KEY |-> key] : key \in {None, Some(""), Some("sk-test")}}

\* ChatModelClient.__init__ called without api_key: the key comes from the
\* environment, and a missing or empty one raises ValueError.
ChatModelClient(env) ==
    LET resolved_key == env.OPENAI_API_KEY
    IN  IF resolved_key = None \/ resolved_key = Some("")
        THEN Raised("ValueError: API key not provided")
        ELSE Returned(resolved_key[1])

\* A loader that takes what it can use of the file.
LoadToolSpecsLenient(file) == Returned(SelectSeq(file.entries, ValidToolSpec))

\* load_tool_specs
LoadToolSpecs(file) ==
    IF file.json # "list"
    THEN Raised("ValueError: tools.json must contain a list of tool definitions")
    ELSE IF \E k \in 1..Len(file.entries) : ~ValidToolSpec(file.entries[k])
    THEN Raised("ValidationError")
    ELSE Returned(file.entries)

\* The strategy handed to batched_subsets.
SamplingStrategy(strategy) ==
    IF strategy \notin {"random", "param_aware", "semantic"} THEN "random" ELSE strategy

BatchSizeWhole(catalog) == Len(catalog)
BatchSize(catalog) == IF Len(catalog) > 0 THEN Max(1, Min(3, Len(catalog))) ELSE 1

\* The entropies the generators of the run's batched_subsets call may start from.
RunEntropies(config) ==
    IF config.seed = None THEN [1..(config.num_samples + 1) -> BatchEntropy]
    ELSE {[n \in 1..(config.num_samples + 1) |-> 0]}

\* A call of sample n to one of the three role functions, each of which sends
\* one model request, and the exception it ended with ("none": it returned).
\* reply tells what a request that returned was answered with: something the
\* sample can go on with ("usable") or not ("unusable"), or, for the judge, the
\* verdict.  Request is the entry of a request that raised, and of one with a
\* usable answer.
Request(n, role, outcome) ==
    [sample |-> n, role |-> role, exc |-> outcome,
     reply |-> IF outcome = "none" THEN "usable" ELSE "none"]
Reply(n, role, seen) == [sample |-> n, role |-> role, exc |-> "none", reply |-> seen]

\* A problem-generation response with a choice whose content is not empty.
ProblemReplySeen(r) ==
    IF r.choices # <<>> /\ r.choices[1].message.content \notin {None, Some(<<>>)}
    THEN "usable" ELSE "unusable"

\* A tool-calling response with a choice whose tool_calls hold a valid one.
CallerReplySeen(r) ==
    IF /\ r.choices # <<>>
       /\ \E k \in 1..Len(r.choices[1].message.tool_calls.items) :
             ValidToolCall(r.choices[1].message.tool_calls.items[k])
    THEN "usable" ELSE "unusable"

\* failed += 1 of the except handler, and of the zero-tool-calls branch
ExceptFailedLost(n) == n
ExceptFailed(n) == n + 1
\* A zero-tool-calls branch that does not count the sample.
NoCallsNotCounted(n) == n
NoCallsFailed(n) == n + 1

\* An end of the iteration that takes the same subset again.
NextSampleRepeats ==
    /\ i' = i
    /\ pc' = "problem"
    /\ user_request' = None
    /\ response' = None
    /\ tool_calls' = <<>>
\* The end of an iteration: the for loop moves to the next subset, or ends.
NextSample ==
    /\ i' = i + 1
    /\ pc' = IF i + 1 < Len(tool_subsets) THEN "problem" ELSE "finish"
    /\ user_request' = None
    /\ response' = None
    /\ tool_calls' = <<>>

HandleExceptionKeepsPartial(e) ==
    /\ failed' = ExceptFailed(failed)
    /\ exc' = Some(e)
    /\ NextSample
    /\ all_records' = Append(all_records,
                             CreateRecord(RecordId(i), tool_subsets[i + 1], <<>>, <<>>,
                                          ModelInfo, None))
\* except Exception as e: failed += 1; continue
HandleException(e) ==
    /\ failed' = ExceptFailed(failed)
    /\ exc' = Some(e)
    /\ NextSample
    /\ UNCHANGED all_records

\* generate_dataset up to the loop: load the tools, sample the subsets.
Start ==
    /\ pc = "start"
    /\ LET loaded == LoadToolSpecs(tools_file)
           client == ChatModelClient(environ)
       IN  IF loaded.exc # "none"
           THEN /\ pc' = "raised"
                /\ exc' = Some(loaded.exc)
                /\ UNCHANGED <<all_tools, tool_subsets>>
           ELSE IF client.exc # "none"
           THEN /\ pc' = "raised"
                /\ exc' = Some(client.exc)
                /\ all_tools' = loaded.val
                /\ UNCHANGED tool_subsets
           ELSE /\ \E es \in RunEntropies(cfg) :
                    /\ tool_subsets' =
                           batched_subsets(loaded.val, BatchSize(loaded.val), cfg.num_samples,
                                           SamplingStrategy(cfg.strategy), cfg.seed, 1, None, es).val
                    /\ all_tools' =
                           CatalogAfterBatched(loaded.val, BatchSize(loaded.val),
                                               cfg.num_samples, SamplingStrategy(cfg.strategy),
                                               cfg.seed, 1, None, es)
                /\ pc' = IF tool_subsets' = <<>> THEN "finish" ELSE "problem"
                /\ exc' = None
    /\ UNCHANGED <<samplerVars, clientVars, cfg, tools_file, environ, i, failed, all_records, user_request,
                   response, tool_calls, log, splits, files, manifest>>

\* _generate_user_request up to the return of client.create
GenerateUserRequest ==
    /\ pc = "problem"
    /\ \/ \E e \in ClientErrors :
            /\ log' = Append(log, Request(i, "problem_generator", e))
            /\ HandleException(e)
       \/ \E r \in ProblemResponses :
            /\ log' = Append(log, Reply(i, "problem_generator", ProblemReplySeen(r)))
            /\ response' = Some(r)
            /\ pc' = "reply"
            /\ exc' = None
            /\ UNCHANGED <<i, failed, all_records, user_request, tool_calls>>
    /\ UNCHANGED <<samplerVars, clientVars, cfg, tools_file, environ, all_tools, tool_subsets, splits, files, manifest>>

\* _generate_user_request from the response on: the checks and the strip
ReadUserRequest ==
    /\ pc = "reply"
    /\ LET text == UserRequestOf(response[1])
       IN  IF text.exc # "none"
           THEN HandleException(text.exc)
           ELSE /\ user_request' = Some(text.val)
                /\ response' = None
                /\ pc' = "call"
                /\ exc' = None
                /\ UNCHANGED <<i, failed, all_records, tool_calls>>
    /\ UNCHANGED <<samplerVars, clientVars, cfg, tools_file, environ, all_tools, tool_subsets, log, splits,
                   files, manifest>>

\* response = _generate_tool_calls(client, user_request, tools_subset, ...)
GenerateToolCalls ==
    /\ pc = "call"
    /\ \/ \E e \in ClientErrors :
            /\ log' = Append(log, Request(i, "tool_caller", e))
            /\ HandleException(e)
       \/ \E r \in CallerResponses :
            /\ log' = Append(log, Reply(i, "tool_caller", CallerReplySeen(r)))
            /\ response' = Some(r)
            /\ pc' = "extract"
            /\ exc' = None
            /\ UNCHANGED <<i, failed, all_records, user_request, tool_calls>>
    /\ UNCHANGED <<samplerVars, clientVars, cfg, tools_file, environ, all_tools, tool_subsets, splits, files, manifest>>

\* tool_calls = _extract_tool_calls(response); if not tool_calls: failed += 1; continue
ExtractStep ==
    /\ pc = "extract"
    /\ LET extracted == ExtractToolCalls(response[1])
       IN  IF extracted.exc # "none" THEN HandleException(extracted.exc)
           ELSE IF extracted.val = <<>>
                THEN /\ failed' = NoCallsFailed(failed)
                     /\ exc' = None
                     /\ NextSample
                     /\ UNCHANGED all_records
                ELSE /\ tool_calls' = extracted.val
                     /\ pc' = "judge"
                     /\ exc' = None
                     /\ UNCHANGED <<i, failed, all_records, user_request, response>>
    /\ UNCHANGED <<samplerVars, clientVars, cfg, tools_file, environ, all_tools, tool_subsets, log, splits,
                   files, manifest>>

\* judge_tool_calls and its try/except: the judge dict, or None when it raised.
\* Then _create_record and all_records.append(record).
JudgeAndRecord ==
    /\ pc = "judge"
    /\ \E judged \in {Raised(e) : e \in ClientErrors}
                        \cup {Returned(r) : r \in JudgeResponses} :
        LET judge_dict == IF judged.exc # "none" THEN None
                          ELSE Some(JudgeResultDict(judged.val))
            record == CreateRecord(RecordId(i), tool_subsets[i + 1], user_request[1],
                                   tool_calls, ModelInfo, judge_dict)
        IN  /\ log' = Append(log, IF judged.exc # "none" THEN Request(i, "judge", judged.exc)
                                   ELSE Reply(i, "judge", judged.val.verdict))
            /\ all_records' = Append(all_records, record)
    /\ exc' = None
    /\ NextSample
    /\ UNCHANGED <<samplerVars, clientVars, cfg, tools_file, environ, all_tools, tool_subsets, failed, splits,
                   files, manifest>>

\* A generator for the shuffle that is made without the seed.
SplitRngUnseeded(config, e) == Random(None, e)
\* rng = random.Random(gen_config.seed)
SplitRng(config, e) == Random(config.seed, e)

SplitIdxCeil(n, train_split) == (n * train_split[1] + train_split[2] - 1) \div train_split[2]
\* int(len(shuffled) * train_split)
SplitIdx(n, train_split) == (n * train_split[1]) \div train_split[2]

SplitRecordsDropsCut(records, train_split, s) ==
    IF FracLt(train_split, <<1, 1>>) /\ Len(records) > 0
    THEN LET shuffled == Shuffle(records, s)
             split_idx == SplitIdx(Len(shuffled), train_split)
         IN  [train |-> SubSeq(shuffled, 1, split_idx),
              val |-> SubSeq(shuffled, split_idx + 2, Len(shuffled))]
    ELSE [train |-> records]
\* The splits of the records, the shuffle starting from generator state s.
SplitRecords(records, train_split, s) ==
    IF FracLt(train_split, <<1, 1>>) /\ Len(records) > 0
    THEN LET shuffled == Shuffle(records, s)
             split_idx == SplitIdx(Len(shuffled), train_split)
         IN  [train |-> SubSeq(shuffled, 1, split_idx),
              val |-> SubSeq(shuffled, split_idx + 1, Len(shuffled))]
    ELSE [train |-> records]

\* Message.model_dump(exclude_none=True): the fields that are not None
DumpMessage(m) ==
    [k \in {"role"} \cup {f \in {"content", "tool_call_id", "name"} : m[f] # None} |->
        IF k = "role" THEN <<m.role>> ELSE m[k]]

\* record.model_dump(exclude_none=True): one line of the JSONL file
DumpRecord(r) ==
    [id |-> r.id, language |-> r.language, tools |-> r.tools,
     messages |-> [n \in 1..Len(r.messages) |-> DumpMessage(r.messages[n])],
     assistant_calls |-> r.assistant_calls, problem_metadata |-> r.problem_metadata,
     judge |-> r.judge, quality_tags |-> r.quality_tags]

\* write_dataset_jsonl: the file is opened with "w" and gets one line a record.
WriteDatasetJsonl(records) == Some([n \in 1..Len(records) |-> DumpRecord(records[n])])

SplitFile(name) == IF name = "train" THEN "train.jsonl" ELSE "val.jsonl"

ManifestRequestedFromOutcomes(config, records, n_failed, catalog, the_splits) ==
    [version |-> "0.1.0",
     num_requested |-> Len(records) + n_failed,
     num_generated |-> Len(records),
     num_failed |-> n_failed,
     strategy |-> config.strategy,
     seed |-> config.seed,
     train_split |-> config.train_split,
     tools_count |-> Len(catalog),
     model |-> ModelInfo.model,
     temperature |-> ModelInfo.temperature,
     splits |-> [name \in DOMAIN the_splits |-> Len(the_splits[name])]]
\* The manifest of generate_dataset.
Manifest(config, records, n_failed, catalog, the_splits) ==
    [version |-> "0.1.0",
     num_requested |-> config.num_samples,
     num_generated |-> Len(records),
     num_failed |-> n_failed,
     strategy |-> config.strategy,
     seed |-> config.seed,
     train_split |-> config.train_split,
     tools_count |-> Len(catalog),
     model |-> ModelInfo.model,
     temperature |-> ModelInfo.temperature,
     splits |-> [name \in DOMAIN the_splits |-> Len(the_splits[name])]]

\* generate_dataset after the loop: split, write the files, return the manifest.
Finish ==
    /\ pc = "finish"
    /\ \E e \in (IF cfg.seed = None THEN BatchEntropy ELSE {0}) :
        splits' = Some(SplitRecords(all_records, cfg.train_split, SplitRng(cfg, e)))
    /\ manifest' = Some(Manifest(cfg, all_records, failed, all_tools, splits'[1]))
    /\ files' = [f \in FileNames |->
                    IF f = "manifest.json" THEN manifest'
                    ELSE IF \E name \in DOMAIN splits'[1] :
                                SplitFile(name) = f /\ splits'[1][name] # <<>>
                         THEN WriteDatasetJsonl(
                                  splits'[1][CHOOSE name \in DOMAIN splits'[1] : SplitFile(name) = f])
                         ELSE files[f]]
    /\ pc' = "done"
    /\ exc' = None
    /\ UNCHANGED <<samplerVars, clientVars, cfg, tools_file, environ, all_tools, tool_subsets, i, failed,
                   all_records, user_request, response, tool_calls, log>>

InitGen ==
    /\ tools = <<>>
    /\ call = [fn |-> "none"]
    /\ out = NotCalled
    /\ out2 = NotCalled
    /\ GreedyIdle
    /\ cfg \in GenConfigs
    /\ tools_file \in ToolsFiles
    /\ environ \in Environs
    /\ pc = "start"
    /\ GenIdle
    /\ ClientIdle

NextGen ==
    \/ Start
    \/ GenerateUserRequest
    \/ ReadUserRequest
    \/ GenerateToolCalls
    \/ ExtractStep
    \/ JudgeAndRecord
    \/ Finish

SpecGen == InitGen /\ [][NextGen]_vars

InitSampling ==
    /\ tools \in Catalogs
    /\ call = [fn |-> "none"]
    /\ out = NotCalled
    /\ out2 = NotCalled
    /\ GreedyIdle
    /\ cfg = [num_samples |-> 0, strategy |-> "random", seed |-> None, train_split |-> <<1, 1>>]
    /\ tools_file = [json |-> "list", entries |-> <<>>]
    /\ environ = [OPENAI_API_KEY |-> None]
    /\ GenIdle
    /\ pc = "idle"
    /\ ClientIdle

NextSampling ==
    \/ CallRandom
    \/ CallParamAware
    \/ CallSemantic
    \/ CallBatched
    \/ CallAgain

SpecSampling == InitSampling /\ [][NextSampling]_vars

\* ----------------------------------------------- the samplers' properties

Count(tool, seq) == Cardinality({m \in 1..Len(seq) : seq[m] = tool})

\* res holds the catalog's tools at pairwise distinct positions.
FromDistinctPositions(res) ==
    \E p \in [1..Len(res) -> 1..Len(tools)] :
        /\ \A m, j \in 1..Len(res) : m # j => p[m] # p[j]
        /\ \A j \in 1..Len(res) : res[j] = tools[p[j]]

\* C1: for a non-empty catalog and 1 <= k <= |catalog|, sample_random_subset
\* returns exactly k tools, taken from pairwise distinct catalog positions.
C1_RandomSubsetWithoutReplacement ==
    (call.fn = "random" /\ tools # <<>> /\ 1 <= call.k /\ call.k <= Len(tools)) =>
        /\ out.exc = "none"
        /\ Len(out.val) = call.k
        /\ FromDistinctPositions(out.val)

C1_Witness ==
    /\ call.fn = "random"
    /\ tools = <<ToolA, ToolA, ToolB>>
    /\ call.k = 2
    /\ out.val = <<ToolA, ToolA>>

\* C2: a sampler call repeated with the same catalog, the same arguments and
\* the same non-null seed returns the same sequence, for the three samplers
\* and for batched_subsets.
C2_SeededCallsRepeat ==
    (call.fn # "none" /\ out2 # NotCalled /\ call.seed # None) => out2 = out

C2_Witness ==
    /\ call.fn = "batched"
    /\ call.strategy = "param_aware"
    /\ call.seed # None
    /\ call.batch_size = 0
    /\ Len(out.val) = 2
    /\ out.val[1] # out.val[2]
    /\ out2 = out

\* C3: for a non-empty catalog and any integer k, each of the three samplers
\* returns max(1, min(k, |catalog|)) tools.
C3_SubsetSizeClamped ==
    (call.fn \in Strategies /\ tools # <<>>) =>
        /\ Len(out.val) = (IF call.k < 1 THEN 1
                           ELSE IF call.k > Len(tools) THEN Len(tools) ELSE call.k)
        /\ 1 <= Len(out.val)
        /\ Len(out.val) <= Len(tools)

C3_Witness ==
    /\ call.fn = "semantic"
    /\ call.k = -1
    /\ Len(tools) = 3
    /\ Len(out.val) = 1

\* C4: on an empty catalog batched_subsets returns the empty list whatever its
\* other arguments, each sampler returns the empty list for every k, and none
\* of them raises.
C4_EmptyCatalogEmptyResult ==
    (tools = <<>> /\ call.fn # "none") => out = [exc |-> "none", val |-> <<>>]

C4_Witness ==
    /\ tools = <<>>
    /\ call.fn = "batched"
    /\ call.total = 2
    /\ call.batch_size = 2
    /\ call.seed = None
    /\ out = [exc |-> "none", val |-> <<>>]

\* C5: sample_param_aware_subset returns its tools in non-increasing order of
\* parameter count, every returned tool has at least the parameter count of
\* every catalog tool left out, and the first has the catalog's maximum.
C5_ParamAwareOrder ==
    (call.fn = "param_aware" /\ tools # <<>>) =>
        LET r == out.val
        IN  /\ \A j \in 1..(Len(r) - 1) : ToolParamCount(r[j]) >= ToolParamCount(r[j + 1])
            /\ \A t \in ToolPool :
                  Count(t, tools) > Count(t, r) =>
                      \A j \in 1..Len(r) : ToolParamCount(r[j]) >= ToolParamCount(t)
            /\ Len(r) >= 1
            /\ \A m \in 1..Len(tools) : ToolParamCount(r[1]) >= ToolParamCount(tools[m])

C5_Witness ==
    /\ call.fn = "param_aware"
    /\ tools = <<ToolC, ToolA, ToolB>>
    /\ call.k = 2
    /\ out.val = <<ToolB, ToolA>>

\* C6: for a non-empty catalog batched_subsets returns exactly `total`
\* subsets; with batch_size in [1, |catalog|] each has batch_size tools; and
\* every tool of every subset is in the catalog.
C6_BatchCountSizeMembership ==
    (call.fn = "batched" /\ tools # <<>>) =>
        /\ out.exc = "none"
        /\ Len(out.val) = call.total
        /\ (1 <= call.batch_size /\ call.batch_size <= Len(tools)) =>
              \A m \in 1..Len(out.val) : Len(out.val[m]) = call.batch_size
        /\ \A m \in 1..Len(out.val) : \A j \in 1..Len(out.val[m]) :
              \E p \in 1..Len(tools) : out.val[m][j] = tools[p]

C6_Witness ==
    /\ call.fn = "batched"
    /\ Len(tools) = 3
    /\ call.total = 2
    /\ call.batch_size = 2
    /\ Len(out.val) = 2
    /\ Len(out.val[1]) = 2
    /\ out.val[1] # out.val[2]

\* --------------------------------------------- claims on generate_dataset

\* The latest entry of log', when the step appended one.
Requested == Len(log') = Len(log) + 1 /\ SubSeq(log', 1, Len(log)) = log
LastRequest == log'[Len(log')]

\* The loop has ended sample i without a record and goes on with sample i + 1,
\* or ends when there is none.
SampleFailed ==
    /\ failed' = failed + 1
    /\ all_records' = all_records
    /\ i' = i + 1
    /\ pc' = IF i + 1 < Len(tool_subsets) THEN "problem" ELSE "finish"

\* A problem-generation response without choices, or with missing or empty content.
UnusableReply(r) ==
    \/ r.choices = <<>>
    \/ r.choices[1].message.content = None
    \/ r.choices[1].message.content = Some(<<>>)

\* The step raises an exception during problem generation or tool calling: the
\* client ends with one of its terminal errors, the problem response is
\* unusable, or the tool-calling response carries a null tool_calls.
RaisesInSample ==
    \/ /\ pc \in {"problem", "call"}
       /\ Requested
       /\ LastRequest.exc \in {"RateLimitExceeded", "APIRequestError"}
    \/ pc = "reply" /\ UnusableReply(response[1])
    \/ /\ pc = "extract"
       /\ response[1].choices # <<>>
       /\ response[1].choices[1].message.tool_calls.key = "null"

\* C7: an exception raised during problem generation or tool calling for sample
\* i, the client's terminal RateLimitExceeded and APIRequestError included,
\* raises the failure count by exactly one, adds no record, does not leave
\* generate_dataset, and the run goes on with sample i + 1.
C7_ExceptionFailsSampleOnly ==
    [][RaisesInSample => (SampleFailed /\ pc' # "raised" /\ exc' # None)]_vars

\* A terminal client error of the tool-calling request of sample 0 has been
\* counted, and the run is at sample 1.
C7_Witness ==
    /\ pc = "problem"
    /\ i = 1
    /\ failed = 1
    /\ all_records = <<>>
    /\ exc = Some("RateLimitExceeded")
    /\ log = <<Request(0, "problem_generator", "none"), Request(0, "tool_caller", "RateLimitExceeded")>>

\* C8: a problem-generation response with no choices, or with empty or missing
\* content, fails the sample: it is counted, no record is added, no request is
\* sent in that step, and every later request is for a later sample, so neither
\* a tool-calling nor a judge request nor a second problem-generation request
\* is issued for it.
C8_UnusableProblemReplyFailsSample ==
    [][/\ (pc = "reply" /\ UnusableReply(response[1])) => (SampleFailed /\ log' = log)
       /\ i' >= i
       /\ Requested =>
            /\ LastRequest.sample = i
            /\ LastRequest.role = "problem_generator" =>
                    \A k \in 1..Len(log) : log[k].sample # i
       /\ log' # log => Requested]_vars

\* The first sample of two got a response with empty content: it has failed
\* after its one request, and the run is at the second.
C8_Witness ==
    /\ pc = "problem"
    /\ i = 1
    /\ failed = 1
    /\ all_records = <<>>
    /\ exc = Some("ValueError: LLM returned empty content")
    /\ log = <<Reply(0, "problem_generator", "unusable")>>

\* The candidates of a tool-calling response that validate, in response order.
ValidCandidates(r) ==
    IF r.choices = <<>> THEN <<>>
    ELSE SelectSeq(r.choices[1].message.tool_calls.items, ValidToolCall)

\* C9: the tool calls of a sample are its valid candidates in response order,
\* invalid ones dropped; with none valid the sample is counted as failed
\* without a judge request and without a record; a judge request is sent and a
\* record is added only with at least one tool call, and the record carries
\* exactly those calls.
C9_ValidCandidatesKept ==
    [][/\ pc = "extract" =>
            LET valid == ValidCandidates(response[1])
            IN  IF valid = <<>> THEN SampleFailed /\ log' = log
                ELSE /\ tool_calls' = [n \in 1..Len(valid) |-> AssistantToolCall(valid[n])]
                     /\ pc' = "judge"
                     /\ failed' = failed
                     /\ i' = i
       /\ (Requested /\ LastRequest.role = "judge") => (pc = "judge" /\ tool_calls # <<>>)
       /\ all_records' # all_records =>
            /\ pc = "judge"
            /\ tool_calls # <<>>
            /\ Len(all_records') = Len(all_records) + 1
            /\ all_records'[Len(all_records')].assistant_calls = tool_calls]_vars

\* The response held an invalid candidate before a valid one: the sample goes
\* on to the judge with the valid one alone.
C9_Witness ==
    /\ pc = "judge"
    /\ response = Some(Completion(None, ToolCallsList(<<CandidateBadType, CandidateValid2>>)))
    /\ Len(tool_calls) = 1
    /\ tool_calls[1].id = "call_2"
    /\ failed = 0

\* C10: when judging raises, the record of the sample is still added with the
\* sample's id, the failure count stays, nothing leaves generate_dataset, and
\* the record's judge mapping holds the model and the temperature only; the
\* manifest counts every record added as generated.
C10_JudgeFailureKeepsRecord ==
    [][/\ (pc = "judge" /\ Requested /\ LastRequest.exc # "none") =>
            /\ failed' = failed
            /\ pc' \in {"problem", "finish"}
            /\ Len(all_records') = Len(all_records) + 1
            /\ SubSeq(all_records', 1, Len(all_records)) = all_records
            /\ LET record == all_records'[Len(all_records')]
               IN  /\ record.id = RecordId(i)
                   /\ DOMAIN record.judge = {"model", "temperature"}
                   /\ record.judge.model = ModelInfo.model
                   /\ record.judge.temperature = ModelInfo.temperature
       /\ pc = "finish" =>
            /\ manifest'[1].num_generated = Len(all_records)
            /\ manifest'[1].num_failed = failed]_vars

\* A run of one sample whose judge request ended with an error has returned:
\* one record without scores, no failure.
C10_Witness ==
    /\ pc = "done"
    /\ failed = 0
    /\ Len(all_records) = 1
    /\ DOMAIN all_records[1].judge = {"model", "temperature"}
    /\ log[Len(log)] = Request(0, "judge", "APIRequestError")
    /\ manifest[1].num_generated = 1
    /\ manifest[1].num_failed = 0

\* ------------------------------------------ claims on splits and manifest

\* The records of every split, train first.
SplitRecordsOf(sp) == sp.train \o (IF "val" \in DOMAIN sp THEN sp.val ELSE <<>>)

\* The sum of the per-split counts of a manifest.
SplitCountSum(counts) ==
    (IF "train" \in DOMAIN counts THEN counts.train ELSE 0)
        + (IF "val" \in DOMAIN counts THEN counts.val ELSE 0)

\* Every element of a occurs in b as often as in a, and the reverse.
SameRecords(a, b) ==
    /\ Len(a) = Len(b)
    /\ \A r \in {a[n] : n \in 1..Len(a)} \cup {b[n] : n \in 1..Len(b)} :
          Cardinality({n \in 1..Len(a) : a[n] = r}) = Cardinality({n \in 1..Len(b) : b[n] = r})

\* C11: in every manifest returned, num_generated is the sum of the per-split
\* counts, that sum is len(train) + len(val), and the splits together hold
\* every successful record exactly once.
C11_ManifestCountsMatchSplits ==
    manifest # None =>
        /\ manifest[1].num_generated = Len(all_records)
        /\ manifest[1].num_generated = SplitCountSum(manifest[1].splits)
        /\ DOMAIN manifest[1].splits = DOMAIN splits[1]
        /\ SplitCountSum(manifest[1].splits) = Len(SplitRecordsOf(splits[1]))
        /\ SameRecords(all_records, SplitRecordsOf(splits[1]))

\* Two records were generated and split into one for train and one for val.
C11_Witness ==
    /\ pc = "done"
    /\ Len(all_records) = 2
    /\ manifest[1].num_generated = 2
    /\ manifest[1].splits = [train |-> 1, val |-> 1]

\* C12: with N >= 1 successful records and train_split < 1.0 the records are
\* shuffled by a generator seeded with the run seed, the first
\* floor(N * train_split) of them are train and the rest val, so both are
\* disjoint and hold every record exactly once; with train_split = 1.0 train is
\* the only split and holds all N records.
C12_SplitPolicy ==
    splits # None =>
        LET N == Len(all_records)
            num == cfg.train_split[1]
            den == cfg.train_split[2]
            sp == splits[1]
        IN  /\ (num < den /\ N >= 1) =>
                /\ DOMAIN sp = {"train", "val"}
                /\ Len(sp.train) = (N * num) \div den
                /\ Len(sp.val) = N - (N * num) \div den
                /\ SameRecords(all_records, sp.train \o sp.val)
                /\ \A a \in 1..Len(sp.train), b \in 1..Len(sp.val) : sp.train[a] # sp.val[b]
                /\ cfg.seed # None => sp.train \o sp.val = Shuffle(all_records, cfg.seed[1] % 64)
            /\ num = den =>
                /\ DOMAIN sp = {"train"}
                /\ sp.train = all_records

\* A seeded run split its single record at floor(1 * 1/2) = 0: train is empty
\* and val holds the record.
C12_Witness ==
    /\ pc = "done"
    /\ cfg.seed # None
    /\ cfg.train_split = <<1, 2>>
    /\ Len(all_records) = 1
    /\ splits[1].train = <<>>
    /\ splits[1].val = all_records

\* manifest.json holds the manifest returned, with the configured values.
ManifestWritten ==
    /\ manifest # None
    /\ files["manifest.json"] = manifest
    /\ manifest[1].num_requested = cfg.num_samples
    /\ manifest[1].strategy = cfg.strategy
    /\ manifest[1].seed = cfg.seed

\* C13: generate_dataset writes manifest.json on every run whose tools file
\* and client are set up, whatever the number of records generated (none, for
\* an empty catalog): it raises during the setup only, the loop is left after
\* the last subset only for the split and the manifest, and on return
\* manifest.json is written with num_requested, strategy and seed as
\* configured.
C13_ManifestAlwaysWritten ==
    /\ pc = "done" => ManifestWritten
    /\ pc = "raised" => (tool_subsets = <<>> /\ log = <<>> /\ exc # None)
    /\ pc \in {"problem", "reply", "call", "extract", "judge"} => i < Len(tool_subsets)
    /\ pc \in {"finish", "done"} => i = Len(tool_subsets)

\* A run over an empty catalog that asked for MaxSamples samples has returned:
\* no record, no dataset file, and manifest.json written.
C13_Witness ==
    /\ pc = "done"
    /\ tools_file.entries = <<>>
    /\ cfg.num_samples = MaxSamples
    /\ all_records = <<>>
    /\ files["train.jsonl"] = None
    /\ ManifestWritten
    /\ manifest[1].num_generated = 0

\* The lines of the dataset files, train.jsonl first.
DatasetLines(fs) ==
    (IF fs["train.jsonl"] = None THEN <<>> ELSE fs["train.jsonl"][1])
        \o (IF fs["val.jsonl"] = None THEN <<>> ELSE fs["val.jsonl"][1])

\* C14: no record is written for a failed sample.  A sample passes problem
\* generation only with non-empty content; a record is added only for a sample
\* that passed it and has at least one valid tool call, and never in a step
\* that counts a failure; the dataset files are written after the loop, each
\* line the dump of one such record; and the failure count goes to the
\* manifest's num_failed.
C14_NoRecordForFailedSample ==
    [][/\ (pc = "reply" /\ pc' = "call") =>
            /\ response[1].choices # <<>>
            /\ response[1].choices[1].message.content \notin {None, Some(<<>>)}
       /\ all_records' # all_records =>
            /\ pc = "judge"
            /\ user_request # None
            /\ tool_calls # <<>>
            /\ failed' = failed
            /\ Len(all_records') = Len(all_records) + 1
            /\ SubSeq(all_records', 1, Len(all_records)) = all_records
            /\ all_records'[Len(all_records')].id = RecordId(i)
            /\ all_records'[Len(all_records')].assistant_calls = tool_calls
            /\ all_records'[Len(all_records')].problem_metadata.user_request = user_request[1]
       /\ failed' # failed => all_records' = all_records
       /\ pc # "finish" => files' = files
       /\ pc = "finish" =>
            /\ Len(DatasetLines(files')) = Len(all_records)
            /\ \A n \in 1..Len(DatasetLines(files')) :
                  \E m \in 1..Len(all_records) :
                      /\ DatasetLines(files')[n].id = all_records[m].id
                      /\ DatasetLines(files')[n].assistant_calls = all_records[m].assistant_calls
                      /\ DatasetLines(files')[n].problem_metadata = all_records[m].problem_metadata
            /\ manifest'[1].num_failed = failed
            /\ manifest'[1].num_generated = Len(all_records)]_vars

\* The first sample failed and the second succeeded: train.jsonl holds the one
\* record, of sample 1, and the manifest counts one failure.
C14_Witness ==
    /\ pc = "done"
    /\ failed = 1
    /\ Len(all_records) = 1
    /\ files["val.jsonl"] = None
    /\ Len(files["train.jsonl"][1]) = 1
    /\ files["train.jsonl"][1][1].id = RecordId(1)
    /\ manifest[1].num_failed = 1

\* C15: each successful record is in the output file as soon as its sample
\* has succeeded, before the next sample starts: at every point of the run the
\* dataset files hold a line for every record generated so far.
C15_RecordsAppendedLive ==
    \A n \in 1..Len(all_records) :
        \E m \in 1..Len(DatasetLines(files)) : DatasetLines(files)[m].id = all_records[n].id

\* --------------------------------------- ChatModelClient: the retry loop

\* The clients: max_retries, initial_retry_delay and max_retry_delay (seconds).
Clients ==
    [max_retries : 0..MaxRetries, initial_retry_delay : {1, 2}, max_retry_delay : {3}]

\* The retry-after header of a rate-limit response: None when the error has no
\* response or the header is missing, else its text.
RetryAfterHints == {None, Some(<<>>), Some(<<"7">>), Some(<<"s", "o", "o", "n">>)}

\* What self._client.chat.completions.create may raise.
RateLimitError(hint) == [type |-> "RateLimitError", status_code |-> Some(429), retry_after |-> hint]
APIError(status_code) == [type |-> "APIError", status_code |-> status_code, retry_after |-> None]
OtherException == [type |-> "Exception", status_code |-> None, retry_after |-> None]
TransportErrors ==
    {RateLimitError(hint) : hint \in RetryAfterHints}
        \cup {APIError(code) : code \in {None, Some(400), Some(500), Some(503)}}
        \cup {OtherException}

\* The texts of message.content for a structured request: no JSON, and the
\* JSON of a JudgeResponse.
TextNoJson == <<"o", "k">>
TextJudgeJson == <<"{", "s", "c", "o", "r", "e", "}">>

\* What the transport may return, dumped.
TransportResponses(m) ==
    IF m = "create" THEN {Completion(Some(TextPadded), ToolCallsNull)}
    ELSE {NoChoices} \cup {Completion(c, ToolCallsNull) :
                              c \in {None, Some(TextEmpty), Some(TextNoJson), Some(TextJudgeJson)}}

Failure(error) == [kind |-> "error", error |-> error, response |-> NoChoices]
Success(reply) == [kind |-> "response", error |-> OtherException, response |-> reply]
TransportOutcomes(m) ==
    {Failure(e) : e \in TransportErrors} \cup {Success(r) : r \in TransportResponses(m)}

ShouldRetryRateLimitOnly(error) == error.type = "RateLimitError"
ShouldRetryAnyAPIError(error) == error.type \in {"RateLimitError", "APIError"}
\* _should_retry
ShouldRetry(error) ==
    \/ error.type = "RateLimitError"
    \/ /\ error.type = "APIError"
       /\ error.status_code # None
       /\ error.status_code[1] # 0
       /\ 500 <= error.status_code[1]
       /\ error.status_code[1] < 600

RECURSIVE Pow2(_)
Pow2(n) == IF n = 0 THEN 1 ELSE 2 * Pow2(n - 1)

BackoffUncapped(client, a) == client.initial_retry_delay * Pow2(a)
\* min(self.initial_retry_delay * (2**attempt), self.max_retry_delay)
Backoff(client, a) == Min(client.initial_retry_delay * Pow2(a), client.max_retry_delay)

\* float(retry_after) for a text of decimal digits; any other text raises
\* ValueError.
DigitValue(c) ==
    CASE c = "0" -> 0 [] c = "1" -> 1 [] c = "2" -> 2 [] c = "3" -> 3 [] c = "4" -> 4
      [] c = "5" -> 5 [] c = "6" -> 6 [] c = "7" -> 7 [] c = "8" -> 8 [] OTHER -> 9
IsDigit(c) == c \in {"0", "1", "2", "3", "4", "5", "6", "7", "8", "9"}
RECURSIVE DigitsValue(_)
DigitsValue(text) ==
    IF text = <<>> THEN 0
    ELSE 10 * DigitsValue(SubSeq(text, 1, Len(text) - 1)) + DigitValue(text[Len(text)])
Float(text) ==
    IF text # <<>> /\ \A n \in 1..Len(text) : IsDigit(text[n])
    THEN Returned(DigitsValue(text))
    ELSE Raised("ValueError")

RetryDelayCapped(client, a, error) ==
    LET delay == Backoff(client, a)
    IN  IF error.type = "RateLimitError" /\ error.retry_after \notin {None, Some(<<>>)}
        THEN IF Float(error.retry_after[1]).exc = "none"
             THEN Min(Float(error.retry_after[1]).val, client.max_retry_delay)
             ELSE delay
        ELSE delay
\* The delay slept after a retried failure of attempt a: the backoff, or the
\* retry-after header of a rate-limit error when it is a number.
RetryDelay(client, a, error) ==
    LET delay == Backoff(client, a)
    IN  IF error.type = "RateLimitError" /\ error.retry_after \notin {None, Some(<<>>)}
        THEN IF Float(error.retry_after[1]).exc = "none"
             THEN Float(error.retry_after[1]).val
             ELSE delay
        ELSE delay

TerminalErrorUntyped(error) == Raised("APIRequestError")
\* The raise after the loop
TerminalError(error) ==
    IF error.type = "RateLimitError" THEN Raised("RateLimitExceeded")
    ELSE Raised("APIRequestError")

\* response_model.model_validate_json(content) for JudgeResponse
ModelValidateJson(content) ==
    IF content = TextJudgeJson
    THEN Returned([tool_relevance |-> 40, argument_quality |-> 30, clarity |-> 20,
                   score |-> 90, verdict |-> "accept", rationale |-> "fits"])
    ELSE Raised("ValidationError")

\* A try body that hands on whatever the transport returned.
DeliverUnchecked(m, reply) == Returned(reply)

\* The try body after the transport returned: create dumps the response;
\* create_structured decodes it, and what it raises there is caught by
\* `except Exception` and raised as APIRequestError.
Deliver(m, reply) ==
    IF m = "create" THEN Returned(reply)
    ELSE IF reply.choices = <<>> THEN Raised("APIRequestError")
    ELSE IF reply.choices[1].message.content \in {None, Some(<<>>)} THEN Raised("APIRequestError")
    ELSE IF ModelValidateJson(reply.choices[1].message.content[1]).exc # "none"
         THEN Raised("APIRequestError")
    ELSE ModelValidateJson(reply.choices[1].message.content[1])

\* A call of create or create_structured starts: the retry loop is entered.
\* The client has no token budget, so _wait_for_rate_limit returns at once
\* and leaves the bucket as it is.
CallClient ==
    /\ method = "none"
    /\ \E m \in {"create", "create_structured"} : method' = m
    /\ attempt' = 0
    /\ last_error' = None
    /\ transport' = <<>>
    /\ sleeps' = <<>>
    /\ result' = NotCalled
    /\ UNCHANGED <<samplerVars, genVars, suspensions, self, limiterVars, judgeVars>>

\* One pass of the retry loop: the transport attempt and its except clauses,
\* with the sleep before the next pass or the raise after the loop.
Attempt ==
    /\ method # "none"
    /\ result = NotCalled
    /\ attempt <= self.max_retries
    /\ \E o \in TransportOutcomes(method) :
        /\ transport' = Append(transport, o)
        /\ IF o.kind = "response"
           THEN /\ result' = Deliver(method, o.response)
                /\ UNCHANGED <<attempt, last_error, sleeps>>
           ELSE IF o.error.type = "Exception"
           THEN /\ result' = Raised("APIRequestError")
                /\ UNCHANGED <<attempt, last_error, sleeps>>
           ELSE /\ last_error' = Some(o.error)
                /\ IF ~ShouldRetry(o.error) \/ attempt >= self.max_retries
                   THEN /\ result' = TerminalError(o.error)
                        /\ UNCHANGED <<attempt, sleeps>>
                   ELSE /\ sleeps' = Append(sleeps, RetryDelay(self, attempt, o.error))
                        /\ attempt' = attempt + 1
                        /\ UNCHANGED result
    /\ UNCHANGED <<samplerVars, genVars, suspensions, self, method, limiterVars, judgeVars>>

InitClient ==
    /\ tools = <<>>
    /\ call = [fn |-> "none"]
    /\ out = NotCalled
    /\ out2 = NotCalled
    /\ GreedyIdle
    /\ cfg = [num_samples |-> 0, strategy |-> "random", seed |-> None, train_split |-> <<1, 1>>]
    /\ tools_file = [json |-> "list", entries |-> <<>>]
    /\ environ = [OPENAI_API_KEY |-> Some("sk-test")]
    /\ GenIdle
    /\ pc = "idle"
    /\ LimiterIdle
    /\ JudgeIdle
    /\ NotSuspended
    /\ self \in Clients
    /\ method = "none"
    /\ attempt = 0
    /\ last_error = None
    /\ transport = <<>>
    /\ sleeps = <<>>
    /\ result = NotCalled

NextClient ==
    \/ CallClient
    \/ Attempt

SpecClient == InitClient /\ [][NextClient]_vars

\* ------------------------------------------- claims on the retry loop

\* A transport failure that is retryable: a rate-limit error or an API error
\* with a 5xx status.
Transient(o) ==
    /\ o.kind = "error"
    /\ \/ o.error.type = "RateLimitError"
       \/ /\ o.error.type = "APIError"
          /\ o.error.status_code \in {Some(c) : c \in 500..599}

\* A transport failure that is not: an API error with a 4xx status or without
\* a status, or any other exception.
NonTransient(o) ==
    /\ o.kind = "error"
    /\ \/ o.error.type = "Exception"
       \/ /\ o.error.type = "APIError"
          /\ o.error.status_code \in {None} \cup {Some(c) : c \in 400..499}

\* min(initial_retry_delay * 2^a, max_retry_delay)
ComputedDelay(a) ==
    IF self.initial_retry_delay * Pow2(a) < self.max_retry_delay
    THEN self.initial_retry_delay * Pow2(a)
    ELSE self.max_retry_delay

\* C16: in create and in create_structured, the sleep after a retried failure
\* of attempt a (from 0) that carries no retry-after hint is
\* min(initial_retry_delay * 2^a, max_retry_delay).
C16_BackoffDelay ==
    /\ Len(sleeps) <= Len(transport)
    /\ \A k \in 1..Len(sleeps) :
          transport[k].error.retry_after = None => sleeps[k] = ComputedDelay(k - 1)

\* create_structured slept 2 s and then the cap of 3 s (2 * 2^1 = 4 s
\* computed) after two failures without a hint.
C16_Witness ==
    /\ method = "create_structured"
    /\ self.initial_retry_delay = 2
    /\ Len(transport) = 2
    /\ transport[1].error = APIError(Some(503))
    /\ transport[2].error = RateLimitError(None)
    /\ sleeps = <<2, 3>>

\* C17: while every transport attempt so far failed with a retryable error,
\* f <= max_retries of them, the call has slept f times and goes on; when the
\* next attempt succeeds the call has made f + 1 attempts, slept f times and
\* returns the successful response.
C17_RetriesThenSuccess ==
    \A f \in 0..self.max_retries :
        (Len(transport) >= f /\ \A k \in 1..f : Transient(transport[k])) =>
            /\ Len(transport) = f => (Len(sleeps) = f /\ attempt = f /\ result = NotCalled)
            /\ (Len(transport) = f + 1 /\ transport[f + 1].kind = "response") =>
                  /\ Len(sleeps) = f
                  /\ method = "create" => result = Returned(transport[f + 1].response)
                  /\ (method = "create_structured"
                        /\ transport[f + 1].response = Completion(Some(TextJudgeJson), ToolCallsNull))
                     => result.exc = "none"

\* With max_retries = 2, create failed twice with a retryable error, slept
\* twice and returned the response of the third attempt.
C17_Witness ==
    /\ method = "create"
    /\ self.max_retries = 2
    /\ Len(transport) = 3
    /\ transport[1].error = APIError(Some(500))
    /\ transport[2].error = RateLimitError(None)
    /\ transport[3].kind = "response"
    /\ Len(sleeps) = 2
    /\ result = Returned(transport[3].response)

\* C18: a failure that is not transient ends the call on the attempt it
\* occurs: it is the last transport attempt, no sleep follows it, and the
\* caller gets an error, not a response.
C18_NonTransientEndsCall ==
    \A k \in 1..Len(transport) :
        NonTransient(transport[k]) =>
            /\ k = Len(transport)
            /\ Len(sleeps) = k - 1
            /\ result = Raised("APIRequestError")

\* After one retried failure, the second attempt failed with status 400: one
\* sleep, two attempts, and an error for the caller.
C18_Witness ==
    /\ self.max_retries = 2
    /\ Len(transport) = 2
    /\ transport[1].error = APIError(Some(503))
    /\ transport[2].error = APIError(Some(400))
    /\ Len(sleeps) = 1
    /\ result = Raised("APIRequestError")

\* C19: when every transport attempt fails with a retryable error, the call
\* makes max_retries + 1 attempts and sleeps max_retries times, then raises
\* RateLimitExceeded if the last failure was a rate-limit error and
\* APIRequestError otherwise; it returns no response.
C19_ExhaustedRetriesRaise ==
    /\ Len(transport) <= self.max_retries + 1
    /\ (\A k \in 1..Len(transport) : Transient(transport[k])) =>
          IF Len(transport) = self.max_retries + 1
          THEN /\ Len(sleeps) = self.max_retries
               /\ result = Raised(IF transport[Len(transport)].error.type = "RateLimitError"
                                  THEN "RateLimitExceeded" ELSE "APIRequestError")
          ELSE method # "none" => result = NotCalled

\* With max_retries = 2 all three attempts failed, the last with a rate-limit
\* error: two sleeps and RateLimitExceeded.
C19_Witness ==
    /\ self.max_retries = 2
    /\ Len(transport) = 3
    /\ transport[1].error = APIError(Some(503))
    /\ transport[3].error.type = "RateLimitError"
    /\ Len(sleeps) = 2
    /\ result = Raised("RateLimitExceeded")

MaxClock == 120
MaxRequests == 3
MaxBudget == 3

\* window_duration = 60.0: the length of a window, in seconds
WindowDuration == 60

\* The budgets a client is constructed with: none, 0 (which the limiter reads
\* as none) and positive ones.
Budgets == {None, Some(0), Some(MaxBudget - 1), Some(MaxBudget)}

\* The total length of the messages' contents and the max_tokens of a request.
ContentLengths == {0, 3, 4, 8}
MaxTokensArgs == {None, Some(0), Some(1), Some(MaxBudget + 1)}

\* The estimate create and create_structured make: a token per 4 characters
\* of content, plus max_tokens when it is given and not 0.
EstimatedTokens(chars, max_tokens) ==
    (chars \div 4) + (IF max_tokens = None THEN 0 ELSE max_tokens[1])

\* What the clock may advance by between two calls, and what a sleep may
\* last beyond the time asked for.
ClockSteps == {30, 59}
Oversleeps == {0, 1}

\* A limiter that admits every request without waiting.
WaitForRateLimitNeverBlocks(b, now, estimated_tokens, late) ==
    [bucket |-> IF b.rate_limit_tokens_per_minute \in {None, Some(0)} THEN b
                ELSE [b EXCEPT !.tokens_used = @ + estimated_tokens],
     clock |-> now, wait |-> None]

\* _wait_for_rate_limit on bucket b at time now: the bucket and the time when
\* it returns, and the time it slept (None: it did not sleep).  late is the
\* time the sleep and the second reading of the clock took beyond wait_time.
WaitForRateLimit(b, now, estimated_tokens, late) ==
    IF b.rate_limit_tokens_per_minute \in {None, Some(0)}
    THEN [bucket |-> b, clock |-> now, wait |-> None]
    ELSE LET expired == now - b.window_start >= WindowDuration
             b1 == IF expired THEN [b EXCEPT !.tokens_used = 0, !.window_start = now] ELSE b
             over == b1.tokens_used + estimated_tokens > b.rate_limit_tokens_per_minute[1]
             wait_time == WindowDuration - (now - b1.window_start)
             slept == over /\ wait_time > 0
             woke == now + wait_time + late
             b2 == IF slept THEN [b1 EXCEPT !.tokens_used = 0, !.window_start = woke] ELSE b1
         IN  [bucket |-> [b2 EXCEPT !.tokens_used = @ + estimated_tokens],
              clock |-> IF slept THEN woke ELSE now,
              wait |-> IF slept THEN Some(wait_time) ELSE None]

\* What the limiter saw and did for one request.
Admission(b, now, estimated_tokens, done) ==
    [estimated_tokens |-> estimated_tokens,
     called |-> now,
     window_start |-> b.window_start,
     tokens_used |-> b.tokens_used,
     wait |-> done.wait,
     admitted |-> done.clock]

\* create or create_structured up to the retry loop: the estimate of the
\* request and the wait for the rate limit.
EstimateAndWait ==
    /\ Len(admissions) < MaxRequests
    /\ clock <= MaxClock
    /\ \E chars \in ContentLengths, max_tokens \in MaxTokensArgs, late \in Oversleeps :
          LET estimated_tokens == EstimatedTokens(chars, max_tokens)
              done == WaitForRateLimit(bucket, clock, estimated_tokens, late)
          IN  /\ bucket' = done.bucket
              /\ clock' = done.clock
              /\ admissions' = Append(admissions, Admission(bucket, clock, estimated_tokens, done))
    /\ UNCHANGED <<samplerVars, genVars, suspensions, self, method, attempt, last_error, transport, sleeps, result,
                   judgeVars>>

\* Time passes between two requests.
Tick ==
    /\ clock < MaxClock
    /\ \E d \in ClockSteps : clock' = clock + d
    /\ UNCHANGED <<samplerVars, genVars, suspensions, self, method, attempt, last_error, transport, sleeps, result,
                   bucket, admissions, judgeVars>>

InitRateLimit ==
    /\ tools = <<>>
    /\ call = [fn |-> "none"]
    /\ out = NotCalled
    /\ out2 = NotCalled
    /\ GreedyIdle
    /\ cfg = [num_samples |-> 0, strategy |-> "random", seed |-> None, train_split |-> <<1, 1>>]
    /\ tools_file = [json |-> "list", entries |-> <<>>]
    /\ environ = [OPENAI_API_KEY |-> Some("sk-test")]
    /\ GenIdle
    /\ pc = "idle"
    /\ self = [max_retries |-> 3, initial_retry_delay |-> 1, max_retry_delay |-> 60]
    /\ method = "none"
    /\ attempt = 0
    /\ last_error = None
    /\ transport = <<>>
    /\ sleeps = <<>>
    /\ result = NotCalled
    /\ JudgeIdle
    /\ NotSuspended
    /\ \E limit \in Budgets : bucket = NewBucket(limit, 0)
    /\ clock = 0
    /\ admissions = <<>>

NextRateLimit ==
    \/ EstimateAndWait
    \/ Tick

SpecRateLimit == InitRateLimit /\ [][NextRateLimit]_vars

\* ---------------------------------------------- claims on the rate limiter

\* The budget of the client, when it has one.
HasBudget == bucket.rate_limit_tokens_per_minute \notin {None, Some(0)}
Budget == bucket.rate_limit_tokens_per_minute[1]

\* The window that is current when request a is made, and the tokens counted
\* in it: a window of 60 s or older has ended and a new one starts.
WindowOf(a) ==
    IF a.called - a.window_start >= WindowDuration
    THEN [start |-> a.called, tokens |-> 0]
    ELSE [start |-> a.window_start, tokens |-> a.tokens_used]

\* C21: with a token budget, a request whose estimate would take the tokens
\* counted in the current window over the budget is admitted only when 60 s
\* have passed since the window started; and while every request's own
\* estimate is at most the budget, the tokens counted in the window never
\* exceed the budget.
C21_BudgetNeverExceeded ==
    HasBudget =>
        /\ \A n \in 1..Len(admissions) :
              LET a == admissions[n]
              IN  WindowOf(a).tokens + a.estimated_tokens > Budget =>
                      a.admitted >= WindowOf(a).start + WindowDuration
        /\ (\A n \in 1..Len(admissions) : admissions[n].estimated_tokens <= Budget) =>
              bucket.tokens_used <= Budget

\* With a budget of 3, a request of 2 tokens came 59 s into a window that had
\* counted 2: it waited 1 s and the new window counts its 2 tokens.
C21_Witness ==
    /\ bucket.rate_limit_tokens_per_minute = Some(3)
    /\ Len(admissions) = 2
    /\ admissions[1].estimated_tokens = 2
    /\ admissions[2].estimated_tokens = 2
    /\ admissions[2].called = 59
    /\ admissions[2].wait = Some(1)
    /\ admissions[2].admitted = 60
    /\ bucket.tokens_used = 2

\* ------------------------------------------------------ the judge schema

\* The fields of JudgeResponse, all required.
JudgeFields ==
    {"tool_relevance", "argument_quality", "clarity", "score", "verdict", "rationale"}

\* The JSON objects the judge model may reply with; scores are in hundredths.
\* Beside the objects with exactly the fields of the schema there is one with
\* a field too many and one with a field too few.
JudgeContents ==
    [tool_relevance : {-1, 0, 20, 40, 41}, argument_quality : {0, 30, 40},
     clarity : {0, 20, 21}, score : {-1, 0, 50, 69, 70, 90, 100, 101},
     verdict : {"accept", "reject", "maybe"}, rationale : {"fits"}]
    \cup {[tool_relevance |-> 40, argument_quality |-> 30, clarity |-> 20, score |-> 90,
           verdict |-> "accept", rationale |-> "fits", note |-> "extra"],
          [tool_relevance |-> 40, argument_quality |-> 30, clarity |-> 20, score |-> 90,
           verdict |-> "accept"]}

\* JudgeResponse.model_validate_json on the object c: no field missing, none
\* extra, each score within its range, the verdict one of the two literals.
JudgeResponseValidate(c) ==
    IF /\ DOMAIN c = JudgeFields
       /\ c.tool_relevance >= 0 /\ c.tool_relevance <= 40
       /\ c.argument_quality >= 0 /\ c.argument_quality <= 40
       /\ c.clarity >= 0 /\ c.clarity <= 20
       /\ c.score >= 0 /\ c.score <= 100
       /\ c.verdict \in {"accept", "reject"}
    THEN Returned(c)
    ELSE Raised("ValidationError")

\* create_structured decodes the reply of the judge model.
ValidateJudgeResponse ==
    /\ validated = NotCalled
    /\ validated' = JudgeResponseValidate(judge_content[1])
    /\ UNCHANGED <<samplerVars, genVars, suspensions, self, method, attempt, last_error, transport, sleeps, result,
                   limiterVars, judge_content, record_judge>>

\* judge_tool_calls returns JudgeResult.from_response(response), or raises what
\* create_structured raised; generate_dataset stores to_dict() of the result in
\* the record, or no judge data when the call raised.
StoreJudge ==
    /\ validated # NotCalled
    /\ record_judge = None
    /\ record_judge' =
          Some(CreateJudgeDict(ModelInfo,
                               IF validated.exc = "none"
                               THEN Some(JudgeResultDict(validated.val)) ELSE None))
    /\ UNCHANGED <<samplerVars, genVars, suspensions, self, method, attempt, last_error, transport, sleeps, result,
                   limiterVars, judge_content, validated>>

InitJudge ==
    /\ tools = <<>>
    /\ call = [fn |-> "none"]
    /\ out = NotCalled
    /\ out2 = NotCalled
    /\ GreedyIdle
    /\ cfg = [num_samples |-> 0, strategy |-> "random", seed |-> None, train_split |-> <<1, 1>>]
    /\ tools_file = [json |-> "list", entries |-> <<>>]
    /\ environ = [OPENAI_API_KEY |-> Some("sk-test")]
    /\ GenIdle
    /\ pc = "idle"
    /\ self = [max_retries |-> 3, initial_retry_delay |-> 1, max_retry_delay |-> 60]
    /\ method = "none"
    /\ attempt = 0
    /\ last_error = None
    /\ transport = <<>>
    /\ sleeps = <<>>
    /\ result = NotCalled
    /\ LimiterIdle
    /\ NotSuspended
    /\ \E c \in JudgeContents : judge_content = Some(c)
    /\ validated = NotCalled
    /\ record_judge = None

NextJudge ==
    \/ ValidateJudgeResponse
    \/ StoreJudge

SpecJudge == InitJudge /\ [][NextJudge]_vars

\* ---------------------------------------------- claims on the judge schema

\* The score is the sum of the three dimensions and the verdict is "accept"
\* exactly from 0.7 on.
AggregateHolds(j) ==
    /\ j.score = j.tool_relevance + j.argument_quality + j.clarity
    /\ j.verdict = "accept" <=> j.score >= 70

\* C22: every JudgeResponse the schema accepts, and every judge mapping with
\* scores stored in a record, has score = tool_relevance + argument_quality +
\* clarity and verdict "accept" exactly when score >= 0.7.
C22_JudgeAggregate ==
    /\ validated.exc = "none" => AggregateHolds(validated.val)
    /\ (record_judge # None /\ "score" \in DOMAIN record_judge[1]) =>
          AggregateHolds(record_judge[1])

\* ------------------------------------- claims on the run as a whole

\* Every request of the run so far returned, every problem-generation
\* response had content and every tool-calling response a valid tool call.
AllRepliesUsable ==
    \A k \in 1..Len(log) : log[k].exc = "none" /\ log[k].reply # "unusable"

\* C23: with a non-empty catalog and train_split = 1.0, a run in which every
\* model call succeeded and every tool-calling response held a valid tool call
\* returns a manifest with num_generated = num_samples and num_failed = 0, and
\* train.jsonl has num_samples lines, the line of each sample carrying the
\* verdict the judge returned for it.
C23_AllSucceedEndToEnd ==
    (/\ pc = "done"
     /\ Len(all_tools) > 0
     /\ cfg.train_split = <<1, 1>>
     /\ cfg.num_samples > 0
     /\ AllRepliesUsable) =>
        /\ manifest[1].num_generated = cfg.num_samples
        /\ manifest[1].num_failed = 0
        /\ files["train.jsonl"] # None
        /\ Len(files["train.jsonl"][1]) = cfg.num_samples
        /\ Len(log) = 3 * cfg.num_samples
        /\ \A k \in 1..Len(log) :
              log[k].role = "judge" =>
                  files["train.jsonl"][1][log[k].sample + 1].judge.verdict = log[k].reply

\* A run of two samples, the first accepted and the second rejected by the
\* judge, has written both, in that order.
C23_Witness ==
    /\ pc = "done"
    /\ Len(all_tools) > 0
    /\ cfg.train_split = <<1, 1>>
    /\ cfg.num_samples = 2
    /\ AllRepliesUsable
    /\ manifest[1].num_generated = 2
    /\ manifest[1].num_failed = 0
    /\ Len(files["train.jsonl"][1]) = 2
    /\ files["train.jsonl"][1][1].judge.verdict = "accept"
    /\ files["train.jsonl"][1][2].judge.verdict = "reject"

\* ------------------------------------------------------------ the split

MaxRecords == 10

\* The list of the first n records of a run in which no sample failed.
SuccessfulRecords(n) ==
    [k \in 1..n |-> CreateRecord(RecordId(k - 1), <<ToolC>>, <<"h", "i">>,
                                 <<AssistantToolCall(CandidateValid1)>>, ModelInfo, None)]

\* train_split: 0.0, 0.5, 0.8 and 1.0
SplitFractions == {<<0, 1>>, <<1, 2>>, <<4, 5>>, <<1, 1>>}

\* The split step of one run of generate_dataset on the records, train_split
\* and seed at hand.  Every run finds its own OS entropy; the step can be
\* taken again, as the next run with these inputs does.
Split ==
    /\ pc = "split"
    /\ \E e \in Entropy :
          splits' = Some(SplitRecords(all_records, cfg.train_split, SplitRng(cfg, e)))
    /\ UNCHANGED <<samplerVars, clientVars, pc, cfg, tools_file, environ, all_tools, tool_subsets, i,
                   failed, all_records, user_request, response, tool_calls, exc, log, files, manifest>>

InitSplit ==
    /\ tools = <<>>
    /\ call = [fn |-> "none"]
    /\ out = NotCalled
    /\ out2 = NotCalled
    /\ GreedyIdle
    /\ cfg \in [num_samples : {MaxRecords}, strategy : {"random"}, seed : Seeds,
                 train_split : SplitFractions]
    /\ tools_file = [json |-> "list", entries |-> <<ToolC>>]
    /\ environ = [OPENAI_API_KEY |-> Some("sk-test")]
    /\ pc = "split"
    /\ all_tools = <<ToolC>>
    /\ tool_subsets = <<>>
    /\ i = 0
    /\ failed = 0
    /\ \E n \in 0..MaxRecords : all_records = SuccessfulRecords(n)
    /\ user_request = None
    /\ response = None
    /\ tool_calls = <<>>
    /\ exc = None
    /\ log = <<>>
    /\ splits = None
    /\ files = [f \in FileNames |-> None]
    /\ manifest = None
    /\ ClientIdle

NextSplit == Split

SpecSplit == InitSplit /\ [][NextSplit]_vars

\* C24: with a seed, the train/val partition depends on the list of records,
\* train_split and the seed only: a run with the same three gives the same
\* train and the same val sequence as the run before; 10 records at 0.8 give
\* 8 train and 2 val.
C24_SplitDeterministic ==
    [][(pc = "split" /\ cfg.seed # None) =>
          /\ splits # None => splits' = splits
          /\ (Len(all_records) = 10 /\ cfg.train_split = <<4, 5>>) =>
                (Len(splits'[1].train) = 8 /\ Len(splits'[1].val) = 2)]_vars

\* Ten records were split at 0.8 with seed 1: 8 train and 2 val, in another
\* order than they were generated in.
C24_Witness ==
    /\ pc = "split"
    /\ cfg.seed = Some(1)
    /\ cfg.train_split = <<4, 5>>
    /\ Len(all_records) = 10
    /\ splits # None
    /\ Len(splits[1].train) = 8
    /\ Len(splits[1].val) = 2
    /\ splits[1].train \o splits[1].val # all_records

\* C25: after generate_dataset has returned, every split named in the
\* manifest's splits has its own file in the output directory, with as many
\* lines as the manifest counts for the split, also when the count is 0.
C25_EverySplitHasFile ==
    pc = "done" =>
        \A name \in DOMAIN manifest[1].splits :
            /\ files[SplitFile(name)] # None
            /\ Len(files[SplitFile(name)][1]) = manifest[1].splits[name]

\* The number an identifier's digits spell.
RECURSIVE DecimalValue(_)
DecimalValue(d) ==
    IF d = <<>> THEN 0 ELSE 10 * DecimalValue(SubSeq(d, 1, Len(d) - 1)) + d[Len(d)]

\* The judge requests of the run, one for each record, in the order sent.
JudgeRequests == SelectSeq(log, LAMBDA entry : entry.role = "judge")

\* C26: the identifier of a record is made of the index of its sample alone,
\* whether or not earlier samples failed; so the identifiers of a run are
\* pairwise distinct, and with train_split = 1.0 the lines of train.jsonl are
\* in strictly increasing order of the sample index.
C26_IdsFollowSampleIndex ==
    /\ Len(JudgeRequests) = Len(all_records)
    /\ \A k \in 1..Len(all_records) :
          /\ all_records[k].id.prefix = "record_"
          /\ Len(all_records[k].id.digits) = 6
          /\ DecimalValue(all_records[k].id.digits) = JudgeRequests[k].sample
    /\ \A k, m \in 1..Len(all_records) : k # m => all_records[k].id # all_records[m].id
    /\ (pc = "done" /\ cfg.train_split = <<1, 1>> /\ all_records # <<>>) =>
          /\ files["train.jsonl"] # None
          /\ Len(files["train.jsonl"][1]) = Len(all_records)
          /\ \A k, m \in 1..Len(all_records) :
                k < m => DecimalValue(files["train.jsonl"][1][k].id.digits)
                            < DecimalValue(files["train.jsonl"][1][m].id.digits)

\* The first sample of two failed and the second succeeded: its record has
\* the identifier of index 1 and is the one line of train.jsonl.
C26_Witness ==
    /\ pc = "done"
    /\ cfg.train_split = <<1, 1>>
    /\ cfg.num_samples = 2
    /\ failed = 1
    /\ log[1].exc = "RateLimitExceeded"
    /\ Len(all_records) = 1
    /\ all_records[1].id.digits = <<0, 0, 0, 0, 0, 1>>
    /\ Len(files["train.jsonl"][1]) = 1
    /\ files["train.jsonl"][1][1].id = all_records[1].id

\* ------------------------------------- claims on create_structured

\* A response create_structured cannot decode: no choices, no or empty
\* content, or content that does not validate against the response model.
Undecodable(r) ==
    \/ r.choices = <<>>
    \/ r.choices[1].message.content \in {None, Some(<<>>)}
    \/ r.choices[1].message.content # Some(TextJudgeJson)

\* C27: create_structured returns no object for a response without choices,
\* with empty content, or with content that does not validate: the call ends
\* with an error on that attempt, without a sleep and without another
\* transport attempt, so with one attempt and no sleep when it is the first.
C27_DecodingFailureNotRetried ==
    method = "create_structured" =>
        \A k \in 1..Len(transport) :
            (transport[k].kind = "response" /\ Undecodable(transport[k].response)) =>
                /\ k = Len(transport)
                /\ Len(sleeps) = k - 1
                /\ result \in {Raised(e) : e \in ClientErrors}

\* The first attempt of create_structured got content that is no JSON for the
\* model: one attempt, no sleep, APIRequestError, with retries left.
C27_Witness ==
    /\ method = "create_structured"
    /\ self.max_retries = 2
    /\ transport = <<Success(Completion(Some(TextNoJson), ToolCallsNull))>>
    /\ sleeps = <<>>
    /\ result = Raised("APIRequestError")

\* ------------------------------------------- claims on the run's inputs

\* The tools file is not a JSON list, or an entry of it is no tool definition.
InputError ==
    \/ tools_file.json # "list"
    \/ \E k \in 1..Len(tools_file.entries) : "name" \notin DOMAIN tools_file.entries[k]

\* C28: with a tools file that is not a list, or that has an entry failing
\* validation, generate_dataset raises before it sends any model request and
\* before it writes a dataset file or the manifest.
C28_InputErrorFailsRun ==
    InputError =>
        /\ pc \in {"start", "raised"}
        /\ pc = "raised" => exc # None
        /\ log = <<>>
        /\ all_records = <<>>
        /\ \A f \in FileNames : files[f] = None
        /\ manifest = None

\* The run on a tools file with an entry that is no tool definition has
\* raised, with no request sent and no file written.
C28_Witness ==
    /\ tools_file = [json |-> "list", entries |-> <<ToolC, EntryNoFunction>>]
    /\ cfg.num_samples = 2
    /\ pc = "raised"
    /\ exc = Some("ValidationError")
    /\ log = <<>>
    /\ \A f \in FileNames : files[f] = None

\* ------------------------------------- claims on the order of requests

\* The place of a role in the pipeline of a sample.
RoleRank(role) ==
    CASE role = "problem_generator" -> 1
      [] role = "tool_caller" -> 2
      [] role = "judge" -> 3

\* The request returned something the sample goes on with.
Succeeded(entry) == entry.exc = "none" /\ entry.reply # "unusable"

\* C29: the requests of a sample are sent in the order problem generation,
\* tool calling, judging, each at most once and each only after the one before
\* has succeeded; a sample gets no request after its first failure or after
\* its judge request; and no request of a sample is sent before the sample
\* before it is over.
C29_RequestOrder ==
    /\ \A k \in 1..Len(log) :
          /\ log[k].sample \in 0..(cfg.num_samples - 1)
          /\ log[k].sample <= i
          /\ (k = 1 \/ log[k - 1].sample # log[k].sample) => log[k].role = "problem_generator"
    /\ \A k \in 1..(Len(log) - 1) :
          /\ log[k].sample <= log[k + 1].sample
          /\ log[k].sample = log[k + 1].sample =>
                /\ RoleRank(log[k + 1].role) = RoleRank(log[k].role) + 1
                /\ Succeeded(log[k])
    /\ \A k \in 1..Len(log) :
          (log[k].sample = i /\ pc \in {"problem", "reply", "call", "extract", "judge"}) =>
              /\ log[k].exc = "none"
              /\ RoleRank(log[k].role) < 3

\* The first sample went through its three requests; the second has been sent
\* its first, whose answer is not usable.
C29_Witness ==
    /\ pc = "reply"
    /\ i = 1
    /\ log = <<Reply(0, "problem_generator", "usable"), Reply(0, "tool_caller", "usable"),
               Reply(0, "judge", "accept"), Reply(1, "problem_generator", "unusable")>>

\* The samples of the run so far that have a record.
Generated == {DecimalValue(all_records[k].id.digits) : k \in 1..Len(all_records)}

\* C30: with a non-empty catalog every sample the loop has processed has one
\* outcome, a record or a count as failed, never both and never twice; after
\* the loop the processed samples are the num_samples requested, so
\* num_generated + num_failed = num_samples.
C30_OneOutcomePerSample ==
    (Len(all_tools) > 0 /\ pc \notin {"start", "raised", "idle", "split"}) =>
        /\ Len(tool_subsets) = cfg.num_samples
        /\ Generated \subseteq 0..(i - 1)
        /\ Cardinality(Generated) = Len(all_records)
        /\ failed = Cardinality((0..(i - 1)) \ Generated)
        /\ Len(all_records) + failed = i
        /\ pc \in {"finish", "done"} => i = cfg.num_samples
        /\ pc = "done" =>
              /\ manifest[1].num_generated + manifest[1].num_failed = cfg.num_samples
              /\ manifest[1].num_generated = Len(all_records)
              /\ manifest[1].num_failed = failed

\* A run of two samples has returned: the first had no valid tool call and
\* was counted as failed, the second has a record.
C30_Witness ==
    /\ pc = "done"
    /\ cfg.num_samples = 2
    /\ Len(all_tools) > 0
    /\ log[2] = Reply(0, "tool_caller", "unusable")
    /\ Generated = {1}
    /\ manifest[1].num_generated = 1
    /\ manifest[1].num_failed = 1

\* ------------------------------------- further properties of the samplers

\* batch_size lies in [1, |catalog|]: every subset of the call has that size.
FixedBatch == 1 <= call.batch_size /\ call.batch_size <= Len(tools)

\* What the single-subset sampler of the call's strategy returns for k and seed.
SingleSubset(k, seed, e) == Chooser(call.strategy, tools, k, seed, e)

\* Subset 0 of the same batched call made with the global seed s.
FirstOfRun(s) ==
    batched_subsets(tools, call.batch_size, 1, call.strategy, Some(s),
                    call.k_min, call.k_max, <<0, 0>>).val[1]

\* C31: with a global seed s and a fixed batch_size, subset i of
\* batched_subsets is what the single-subset sampler returns for seed s + i,
\* which is subset 0 of the run seeded s + i; with no global seed every subset
\* is what the sampler returns unseeded, from the entropy its generator read.
C31_PerRecordSeed ==
    (call.fn = "batched" /\ tools # <<>> /\ FixedBatch) =>
        /\ out.exc = "none"
        /\ call.seed # None =>
              \A m \in 1..Len(out.val) :
                  /\ \A e \in Entropy :
                        out.val[m] = SingleSubset(call.batch_size,
                                                  Some(call.seed[1] + (m - 1)), e)
                  /\ out.val[m] = FirstOfRun(call.seed[1] + (m - 1))
        /\ call.seed = None =>
              \A m \in 1..Len(out.val) :
                  \E e \in BatchEntropy :
                      out.val[m] = SingleSubset(call.batch_size, None, e)

\* A seeded call of two subsets of two tools each: the second differs from
\* the first, and is what the run seeded one higher starts with.
C31_Witness ==
    /\ call.fn = "batched"
    /\ call.seed = Some(0)
    /\ call.strategy = "random"
    /\ call.batch_size = 2
    /\ call.total = 2
    /\ Len(tools) = 3
    /\ out.val[1] # out.val[2]
    /\ out.val[2] = sample_random_subset(tools, 2, Some(1), 0)
    /\ out.val[2] = FirstOfRun(1)

\* The range the sizes are drawn from when batch_size is not fixed: k_max
\* defaults to |catalog| when null or 0 and is brought into [1, |catalog|],
\* then k_min is brought into [1, k_max].
SizeHi ==
    LET given == IF call.k_max = None \/ call.k_max = Some(0) THEN Len(tools)
                 ELSE call.k_max[1]
    IN  IF given < 1 THEN 1 ELSE IF given > Len(tools) THEN Len(tools) ELSE given
SizeLo == IF call.k_min < 1 THEN 1 ELSE IF call.k_min > SizeHi THEN SizeHi ELSE call.k_min

\* C32: for a non-empty catalog batched_subsets never raises; every subset has
\* batch_size tools when batch_size lies in [1, |catalog|], and otherwise a
\* size within the clamped range 1 <= k_min <= k_max <= |catalog|, which may
\* differ from subset to subset; so every size lies in [1, |catalog|] and
\* equals batch_size only when batch_size is in range.
C32_SubsetSizeRule ==
    (call.fn = "batched" /\ tools # <<>>) =>
        /\ out.exc = "none"
        /\ 1 <= SizeLo /\ SizeLo <= SizeHi /\ SizeHi <= Len(tools)
        /\ \A m \in 1..Len(out.val) :
              /\ 1 <= Len(out.val[m]) /\ Len(out.val[m]) <= Len(tools)
              /\ FixedBatch => Len(out.val[m]) = call.batch_size
              /\ ~FixedBatch =>
                    /\ SizeLo <= Len(out.val[m]) /\ Len(out.val[m]) <= SizeHi
                    /\ Len(out.val[m]) # call.batch_size

\* batch_size 0 with k_min 2 above k_max 1: both sizes are 1.
C32_Witness ==
    /\ call.fn = "batched"
    /\ Len(tools) = 3
    /\ call.batch_size = 0
    /\ call.k_min = 2
    /\ call.k_max = Some(1)
    /\ call.total = 2
    /\ Len(out.val[1]) = 1
    /\ Len(out.val[2]) = 1

\* batch_size above the catalog with the default range: the two subsets of
\* one call have different sizes.
C32_WitnessDrawn ==
    /\ call.fn = "batched"
    /\ Len(tools) = 3
    /\ call.batch_size = 4
    /\ call.k_min = 0
    /\ call.k_max = None
    /\ call.total = 2
    /\ Len(out.val[1]) # Len(out.val[2])

\* ----------------------------- sample_semantic_subset, one step at a time

\* Longest catalog the followed call of sample_semantic_subset is tried on.
MaxSemanticTools == 4

\* A tool whose only keyword is one of the keywords of ToolA and of ToolB.
ToolE == [name |-> "weather", description |-> None, properties |-> None]

SemanticCatalogs == SeqsUpTo(ToolPool \cup {ToolE}, MaxSemanticTools)
SemanticKs == -1..(MaxSemanticTools + 1)

\* The call has ended with the list res.
SemanticReturns(res) ==
    /\ out' = Returned(res)
    /\ greedy' = [greedy EXCEPT !.pc = "returned"]

\* sample_semantic_subset up to the while loop: the empty catalog and the
\* catalog of at most k tools are returned at once; otherwise the shuffled
\* copy of the catalog gives the first selected tool.
EnterSemantic ==
    /\ greedy.pc = "called"
    /\ LET k == ClampK(call.k, Len(tools))
           shuffled == Shuffle(tools, Random(call.seed, greedy.entropy))
       IN  IF tools = <<>> THEN SemanticReturns(<<>>)
           ELSE IF Len(tools) <= k THEN SemanticReturns(tools)
           ELSE /\ greedy' = [greedy EXCEPT !.pc = "loop", !.k = k,
                                            !.selected = <<Head(shuffled)>>,
                                            !.remaining = Tail(shuffled)]
                /\ out' = out
    /\ UNCHANGED <<tools, call, out2, genVars, clientVars>>

\* One pass of the while loop: the best candidate is moved from remaining to
\* selected, or the head of remaining is when there is none.
GreedyStep ==
    /\ greedy.pc = "loop"
    /\ Len(greedy.selected) < greedy.k /\ greedy.remaining # <<>>
    /\ LET best_tool == BestTool(greedy.remaining, greedy.selected)
           added == IF best_tool # None THEN best_tool[1] ELSE Head(greedy.remaining)
       IN  greedy' = [greedy EXCEPT
                !.selected = Append(greedy.selected, added),
                !.remaining = IF best_tool # None THEN RemoveFirst(greedy.remaining, added)
                              ELSE Tail(greedy.remaining),
                !.step = Some([selected |-> greedy.selected,
                               remaining |-> greedy.remaining,
                               added |-> added,
                               branch |-> IF best_tool # None THEN "best" ELSE "fallback"]),
                !.steps = greedy.steps + 1]
    /\ UNCHANGED <<tools, call, out, out2, genVars, clientVars>>

\* The loop condition fails: return selected.
ReturnSelected ==
    /\ greedy.pc = "loop"
    /\ ~(Len(greedy.selected) < greedy.k /\ greedy.remaining # <<>>)
    /\ SemanticReturns(greedy.selected)
    /\ UNCHANGED <<tools, call, out2, genVars, clientVars>>

InitSemantic ==
    /\ tools \in SemanticCatalogs
    /\ \E k \in SemanticKs, seed \in Seeds :
          /\ call = [fn |-> "semantic", k |-> k, seed |-> seed]
          /\ \E e \in (IF seed = None THEN Entropy ELSE {0}) :
                greedy = [pc |-> "called", entropy |-> e, k |-> k, selected |-> <<>>,
                          remaining |-> <<>>, step |-> None, steps |-> 0]
    /\ out = NotCalled
    /\ out2 = NotCalled
    /\ cfg = [num_samples |-> 0, strategy |-> "random", seed |-> None, train_split |-> <<1, 1>>]
    /\ tools_file = [json |-> "list", entries |-> <<>>]
    /\ environ = [OPENAI_API_KEY |-> None]
    /\ GenIdle
    /\ pc = "idle"
    /\ ClientIdle

NextSemantic ==
    \/ EnterSemantic
    \/ GreedyStep
    \/ ReturnSelected

SpecSemantic == InitSemantic /\ [][NextSemantic]_vars

\* The steps return what the function, computed in one go, returns.
SemanticStepsAgree ==
    greedy.pc = "returned" =>
        out = Returned(sample_semantic_subset(tools, call.k, call.seed, greedy.entropy))

\* The latest step of the loop, once one was made.
Stepped == greedy.pc \in {"loop", "returned"} /\ greedy.step # None
LastStep == greedy.step[1]

\* How far a mean similarity lies from the band [0.2, 0.6] (0 inside it).
BandDistance(avg_sim) ==
    IF FracLt(avg_sim, <<1, 5>>) THEN <<avg_sim[2] - 5 * avg_sim[1], 5 * avg_sim[2]>>
    ELSE IF FracLt(<<3, 5>>, avg_sim) THEN <<5 * avg_sim[1] - 3 * avg_sim[2], 5 * avg_sim[2]>>
    ELSE <<0, 1>>

InBand(avg_sim) == FracLe(<<1, 5>>, avg_sim) /\ FracLe(avg_sim, <<3, 5>>)

\* What the step does do: the tool added has the highest score (the mean
\* similarity, halved outside the band) among the remaining tools, and is the
\* first of them in the shuffled order to have it.
AddedHasBestScore ==
    Stepped =>
        LET st == LastStep
            score(t) == SemanticScore(AvgSimilarity(t, st.selected))
        IN  /\ \A j \in 1..Len(st.remaining) : FracLe(score(st.remaining[j]), score(st.added))
            /\ \E j \in 1..Len(st.remaining) :
                  /\ st.remaining[j] = st.added
                  /\ \A m \in 1..(j - 1) : FracLt(score(st.remaining[m]), score(st.added))

\* C33: at each step of the while loop of sample_semantic_subset the tool
\* added is a remaining tool whose mean similarity to the selected tools is
\* closest to the band [0.2, 0.6]: no other remaining tool lies nearer to the
\* band, so a tool outside the band is not added while one inside it remains.
C33_AddedClosestToBand ==
    Stepped =>
        LET st == LastStep
            distance(t) == BandDistance(AvgSimilarity(t, st.selected))
        IN  /\ \E j \in 1..Len(st.remaining) : st.remaining[j] = st.added
            /\ \A j \in 1..Len(st.remaining) :
                  FracLe(distance(st.added), distance(st.remaining[j]))

\* With get_weather selected, the second get_weather (similarity 1, score 0.5)
\* is added although weather (similarity 0.25, inside the band) remains.
C33_Reached ==
    /\ Stepped
    /\ LastStep.selected = <<ToolA>>
    /\ LastStep.added = ToolA
    /\ \E j \in 1..Len(LastStep.remaining) :
          /\ LastStep.remaining[j] = ToolE
          /\ InBand(AvgSimilarity(ToolE, LastStep.selected))
    /\ ~InBand(AvgSimilarity(LastStep.added, LastStep.selected))

\* What sample_semantic_subset has returned: min(max(k, 1), |catalog|) tools
\* from pairwise distinct catalog positions, and the catalog itself, in its
\* order, when it has at most k tools.
SemanticResultRight ==
    /\ out.exc = "none"
    /\ Len(out.val) = Min(Max(call.k, 1), Len(tools))
    /\ FromDistinctPositions(out.val)
    /\ Len(tools) <= call.k => out.val = tools

\* C34: sample_semantic_subset terminates and returns min(max(k, 1),
\* |catalog|) tools taken from pairwise distinct catalog positions, the whole
\* catalog in its order when it has at most k tools.  Termination: each step
\* of the loop moves one tool from remaining to selected, so the loop is
\* entered with fewer than k selected tools at most k - 1 times.
C34_SemanticTerminates ==
    /\ greedy.pc \in {"called", "loop", "returned"}
    /\ greedy.pc = "loop" =>
          /\ Len(greedy.selected) = greedy.steps + 1
          /\ Len(greedy.selected) <= greedy.k
          /\ greedy.k < Len(tools)
          /\ Len(greedy.selected) + Len(greedy.remaining) = Len(tools)
    /\ greedy.pc = "returned" => SemanticResultRight

\* Three of four distinct tools, chosen in two steps of the loop.
C34_Witness ==
    /\ greedy.pc = "returned"
    /\ tools = <<ToolA, ToolE, ToolC, ToolB>>
    /\ call.k = 3
    /\ greedy.steps = 2
    /\ Len(out.val) = 3
    /\ greedy.remaining = <<ToolC>>

\* C35: a step of the loop takes the fallback pop exactly when no remaining
\* tool scores above the initial best_score of -1.0; every score is at least
\* 0, so whenever the loop body runs (remaining is not empty) a best tool is
\* found and the fallback is not taken.
C35_FallbackNeverTaken ==
    Stepped =>
        LET st == LastStep
            score(t) == SemanticScore(AvgSimilarity(t, st.selected))
            beaten == \E j \in 1..Len(st.remaining) : FracLt(<<-1, 1>>, score(st.remaining[j]))
        IN  /\ st.remaining # <<>>
            /\ \A j \in 1..Len(st.remaining) : FracLe(<<0, 1>>, score(st.remaining[j]))
            /\ (st.branch = "fallback") <=> ~beaten
            /\ st.branch = "best"

\* With ping selected every remaining tool scores 0: the first of them is
\* still found as the best one.
C35_Witness ==
    /\ Stepped
    /\ LastStep.selected = <<ToolC>>
    /\ Len(LastStep.remaining) = 3
    /\ \A j \in 1..3 :
          SemanticScore(AvgSimilarity(LastStep.remaining[j], LastStep.selected))[1] = 0
    /\ LastStep.branch = "best"
    /\ LastStep.added = LastStep.remaining[1]

\* ------------------------------------------------- the catalog of a run

\* The direct calls of the three samplers and of batched_subsets leave the
\* caller's list as it was.
SamplersKeepCatalog == [][tools' = tools]_vars

\* C36: the catalog is read-only for the run.  From the moment the tools file
\* is loaded to the return of generate_dataset, through the call of
\* batched_subsets and of the sampler it applies for every sample and through
\* every step of the loop, all_tools is the list of the entries loaded: same
\* length, same order, same elements.
C36_CatalogReadOnly ==
    (pc \notin {"start", "idle", "split"} /\ LoadToolSpecs(tools_file).exc = "none") =>
        /\ all_tools = tools_file.entries
        /\ Len(all_tools) = Len(tools_file.entries)
        /\ \A n \in 1..Len(tool_subsets) : \A j \in 1..Len(tool_subsets[n]) :
              \E m \in 1..Len(all_tools) : tool_subsets[n][j] = all_tools[m]

\* A run over four tools with the semantic strategy has returned: its first
\* subset is not the head of the catalog, whose list was shuffled in a copy.
C36_Witness ==
    /\ pc = "done"
    /\ cfg.strategy = "semantic"
    /\ cfg.num_samples = 2
    /\ all_tools = <<ToolA, ToolB, ToolC, ToolD>>
    /\ Len(tool_subsets[1]) = 3
    /\ tool_subsets[1] # SubSeq(all_tools, 1, 3)
    /\ Len(all_records) >= 1

\* The requests a problem response can carry: its content, stripped (a blank
\* content gives the empty request).
GeneratedRequests == {Strip(c[1]) : c \in Contents \ {None, Some(TextEmpty)}}

Roles == <<"problem", "call", "judge">>

\* One point at which the run gave up the processor: the wait of
\* _wait_for_rate_limit (time.sleep(wait_time)), the request sent to the
\* model, or the sleep before the next attempt (time.sleep(delay)).
Suspension(n, role, kind) == [sample |-> n, role |-> role, kind |-> kind]

\* The clients the role calls go through: one without a token budget, as
\* generate_dataset builds it, and one constructed with a budget.
PipelineBudgets == {None, Some(MaxBudget)}

\* The client method a role calls: judge_tool_calls asks for a structured reply.
RoleMethod(role) == IF role = "judge" THEN "create_structured" ELSE "create"

\* A role function calls the client: the estimate, the wait for the rate
\* limit, and the entry into the retry loop.
PipelineCall ==
    /\ pc \in {"problem", "call", "judge"}
    /\ method = "none"
    /\ \E chars \in {4, 8} :
          LET estimated_tokens == EstimatedTokens(chars, None)
              done == WaitForRateLimit(bucket, clock, estimated_tokens, 0)
          IN  /\ bucket' = done.bucket
              /\ clock' = done.clock
              /\ suspensions' = IF done.wait # None
                                THEN Append(suspensions, Suspension(i, pc, "rate_limit_wait"))
                                ELSE suspensions
    /\ method' = RoleMethod(pc)
    /\ attempt' = 0
    /\ last_error' = None
    /\ transport' = <<>>
    /\ sleeps' = <<>>
    /\ result' = NotCalled
    /\ UNCHANGED <<samplerVars, self, admissions, judgeVars, pc, cfg, tools_file, environ,
                   all_tools, tool_subsets, i, failed, all_records, user_request, response, tool_calls,
                   exc, log, splits, files, manifest>>

\* The outcomes of a request that differ in what the retry loop does next: a
\* reply, an error that is retried, an error that is not, and an exception
\* that the client wraps at once.
PipelineOutcomes(m) ==
    {o \in TransportOutcomes(m) :
        \/ o.kind = "response" /\ o.response = Completion(Some(IF m = "create" THEN TextPadded ELSE TextJudgeJson), ToolCallsNull)
        \/ o.kind = "error" /\ o.error \in {RateLimitError(None), APIError(Some(400)), OtherException}}

\* A retry loop that sleeps after its last attempt as after the others.
LastAttemptNever(client, a) == FALSE
\* attempt >= self.max_retries: the attempt is the last one of the loop, after
\* which the call gives up without a sleep.
LastAttempt(client, a) == a >= client.max_retries

\* One pass of the retry loop of the call: the request, and the sleep when
\* the failure is retried.
PipelineAttempt ==
    /\ pc \in {"problem", "call", "judge"}
    /\ method # "none"
    /\ result = NotCalled
    /\ attempt <= self.max_retries
    /\ \E o \in PipelineOutcomes(method) :
        LET sent == Append(suspensions, Suspension(i, pc, "round_trip"))
        IN  /\ transport' = Append(transport, o)
            /\ IF o.kind = "response"
               THEN /\ result' = Deliver(method, o.response)
                    /\ suspensions' = sent
                    /\ UNCHANGED <<attempt, last_error, sleeps, clock>>
               ELSE IF o.error.type = "Exception"
               THEN /\ result' = Raised("APIRequestError")
                    /\ suspensions' = sent
                    /\ UNCHANGED <<attempt, last_error, sleeps, clock>>
               ELSE /\ last_error' = Some(o.error)
                    /\ IF ~ShouldRetry(o.error) \/ LastAttempt(self, attempt)
                       THEN /\ result' = TerminalError(o.error)
                            /\ suspensions' = sent
                            /\ UNCHANGED <<attempt, sleeps, clock>>
                       ELSE /\ sleeps' = Append(sleeps, RetryDelay(self, attempt, o.error))
                            /\ clock' = clock + RetryDelay(self, attempt, o.error)
                            /\ suspensions' = Append(sent, Suspension(i, pc, "backoff_sleep"))
                            /\ attempt' = attempt + 1
                            /\ UNCHANGED result
    /\ UNCHANGED <<samplerVars, self, method, bucket, admissions, judgeVars, genVars>>

\* The call is over: the loop of generate_dataset goes on with the next role
\* of the sample, or with the next sample when the sample has failed (the
\* call raised, or what it returned cannot be used) or has its record.
PipelineReturn ==
    /\ pc \in {"problem", "call", "judge"}
    /\ method # "none"
    /\ result # NotCalled
    /\ \E usable \in BOOLEAN :
          LET goes_on == pc # "judge" /\ result.exc = "none" /\ usable
              over == IF i + 1 < cfg.num_samples THEN "problem" ELSE "finish"
          IN  /\ pc' = IF goes_on THEN (IF pc = "problem" THEN "call" ELSE "judge") ELSE over
              /\ i' = IF goes_on THEN i ELSE i + 1
    /\ method' = "none"
    /\ result' = NotCalled
    /\ UNCHANGED <<samplerVars, self, attempt, last_error, transport, sleeps, limiterVars,
                   judgeVars, suspensions, cfg, tools_file, environ, all_tools, tool_subsets,
                   failed, all_records, user_request, response, tool_calls, exc, log,
                   splits, files, manifest>>

InitPipeline ==
    /\ tools = <<>>
    /\ call = [fn |-> "none"]
    /\ out = NotCalled
    /\ out2 = NotCalled
    /\ GreedyIdle
    /\ cfg \in [num_samples : 1..MaxSamples, strategy : {"random"}, seed : {None},
                train_split : {<<1, 1>>}]
    /\ tools_file = [json |-> "list", entries |-> <<ToolC>>]
    /\ environ = [OPENAI_API_KEY |-> Some("sk-test")]
    /\ GenIdle
    /\ pc = "problem"
    /\ self = [max_retries |-> 1, initial_retry_delay |-> 1, max_retry_delay |-> 3]
    /\ method = "none"
    /\ attempt = 0
    /\ last_error = None
    /\ transport = <<>>
    /\ sleeps = <<>>
    /\ result = NotCalled
    /\ JudgeIdle
    /\ NotSuspended
    /\ \E limit \in PipelineBudgets : bucket = NewBucket(limit, 0)
    /\ clock = 0
    /\ admissions = <<>>

NextPipeline ==
    \/ PipelineCall
    \/ PipelineAttempt
    \/ PipelineReturn

SpecPipeline == InitPipeline /\ [][NextPipeline]_vars

\* Two suspensions of the same call: the same role of the same sample.
SameCall(s, t) == s.sample = t.sample /\ s.role = t.role

\* The call that made suspension s has not returned yet and can send again.
StillCalling(s) ==
    /\ pc = s.role
    /\ i = s.sample
    /\ method # "none"
    /\ result = NotCalled
    /\ attempt <= self.max_retries

\* Every backoff sleep stands between two requests of the same call: a
\* request precedes it, and a request follows it once the call goes on.
SleepsBetweenRetries ==
    \A j \in 1..Len(suspensions) :
        suspensions[j].kind = "backoff_sleep" =>
            /\ j > 1
            /\ suspensions[j - 1].kind = "round_trip"
            /\ SameCall(suspensions[j - 1], suspensions[j])
            /\ IF j < Len(suspensions)
               THEN /\ suspensions[j + 1].kind = "round_trip"
                    /\ SameCall(suspensions[j + 1], suspensions[j])
               ELSE StillCalling(suspensions[j])

\* Every suspension belongs to the sample in progress when it happens: the
\* samples of the suspensions never go back, and none is of a later sample
\* than the one the loop is at.
OneSampleAtATime ==
    /\ \A j \in 1..Len(suspensions) : suspensions[j].sample <= i
    /\ \A j \in 1..Len(suspensions), n \in 1..Len(suspensions) :
          j < n => suspensions[j].sample <= suspensions[n].sample

\* A wait for the rate limit is the first suspension of its call, and only a
\* client with a token budget waits.
WaitsBeforeFirstAttempt ==
    \A j \in 1..Len(suspensions) :
        suspensions[j].kind = "rate_limit_wait" =>
            /\ HasBudget
            /\ (j > 1 => ~SameCall(suspensions[j - 1], suspensions[j]))
            /\ (j < Len(suspensions) =>
                  /\ suspensions[j + 1].kind = "round_trip"
                  /\ SameCall(suspensions[j + 1], suspensions[j]))

====
